---- MODULE Spec2Model ----
(***************************************************************************)
(* The two file-backed stores of welld: the memory server                  *)
(* (tools/user_memory_mcp_server.py) and the schedule server               *)
(* (tools/user_schedule_mcp_server.py).  Each server is its own process    *)
(* with one module-level manager; `server` says which of the two processes *)
(* a behaviour follows.  A tool call validates, mutates the in-memory      *)
(* collection and saves; the save is modelled at the granularity of its    *)
(* file-system calls (open for writing truncates, the dump is flushed, the *)
(* file is closed) because a crash or a reader of the file can fall        *)
(* between them.  The searches of the two servers are checked over stores  *)
(* drawn from bounded sets (SearchSpec), and the discovery pass of the     *)
(* connector of tools/utils/mcp_connect.py, a third process, over          *)
(* configurations drawn from a bounded set (ConnectorSpec).                *)
(***************************************************************************)
EXTENDS Integers, Sequences, FiniteSets, TLC

VARIABLES
  server,         \* "memory" or "schedule": the server process followed
  pc,             \* "idle", "save", "write", "down", "load_raised"
  memories,       \* MemoryManager.memories: list of MemoryEntry
  schedules,      \* ScheduleManager.schedules: dict id -> ScheduleEntry, in insertion order
  memory_file,    \* content of MEMORY_FILE
  schedule_file,  \* content of USER_SCHEDULE_FILE
  call,           \* the current or latest tool call (or load) and what it returned
  seen,           \* what a reader of the backing file got during the save in progress
  faults,         \* crashes and I/O errors so far
  uuids,          \* values uuid.uuid4() has returned so far
  config_file,    \* content of the connector's configuration file
  config,         \* MCPDiscovery.config: the parsed configuration document
  tools,          \* the local list `tools` of _load_all_tools: the handles so far
  self_tools,     \* MCPConnector.tools
  next_server,    \* position of the for loop of _load_all_tools in the servers
  attempts,       \* what the attempt for each server of the current pass met
  awaited,        \* what the server awaited in _load_all_tools does, or "none"
  stdout,         \* the lines the current pass has printed
  toolsets,       \* the MCPToolset objects the current pass has created
  peer,           \* a second server process on the same backing file, if there is one
  agents,         \* the dict `agents` of the API process: agent_key -> SimpleAIAgent
  requests,       \* the chat requests of the API process and where each stands
  instances       \* the SimpleAIAgent objects the API process has constructed

connector_vars == <<config_file, config, tools, self_tools, next_server, attempts, awaited, stdout,
                    toolsets>>

api_vars == <<agents, requests, instances>>

vars == <<server, pc, memories, schedules, memory_file, schedule_file, call, seen, faults, uuids,
          connector_vars, peer, api_vars>>

\* the process followed is no connector
NoConnector ==
  /\ config_file = [kind |-> "absent"]
  /\ config = [t |-> "null"]
  /\ tools = <<>>
  /\ self_tools = <<>>
  /\ next_server = 0
  /\ attempts = <<>>
  /\ awaited = "none"
  /\ stdout = <<>>
  /\ toolsets = <<>>

\* the process followed is no API process
NoApi == agents = <<>> /\ requests = <<>> /\ instances = <<>>

\* no second process has the backing file open
NoPeer == [pc |-> "none", collection |-> <<>>, done |-> FALSE, wrote_last |-> FALSE]

----------------------------------------------------------------------------
(* Bounds of the model *)

MaxMem == 2      \* entries the memory store may hold
MaxSched == 1    \* schedule ids (uuid4 values) issued in one behaviour
MaxFaults == 1   \* crashes and I/O errors in one behaviour

(* Program constants *)

KeyLen == 14
DeadlineLen == 12

None == "<None>"

----------------------------------------------------------------------------
(* Strings whose format the code checks are sequences of characters *)

Rep(n, c) == [i \in 1..n |-> c]

AsciiDigits == {"0", "1", "2", "3", "4", "5", "6", "7", "8", "9"}

\* str.isdigit(): non-empty and every character a digit
isdigit(s) == Len(s) > 0 /\ \A i \in 1..Len(s) : s[i] \in AsciiDigits

\* re.match(r"^\d{12}$", s): twelve digits, then the end of the string or a
\* newline that ends the string
ReMatchDeadline(s) ==
  /\ Len(s) >= DeadlineLen
  /\ \A i \in 1..DeadlineLen : s[i] \in AsciiDigits
  /\ \/ Len(s) = DeadlineLen
     \/ Len(s) = DeadlineLen + 1 /\ s[DeadlineLen + 1] = "\n"

----------------------------------------------------------------------------
(* Taxonomy *)

MemoryTag == {"hobby", "personality", "habit", "health", "learning",
              "relationship", "goal", "emotion", "location", "time", "preference"}

MemoryPriority == {"high", "mid", "low"}

SchedulePriority == {"high", "mid", "low"}

----------------------------------------------------------------------------
(* Files and JSON.  A file is absent or holds text.  Text is described by  *)
(* the JSON document it is (a prefix of): the shape of its top-level value *)
(* (`top`), the members written so far (`items`) and whether the closing   *)
(* bracket has been written (`closed`).  A member of a list is a JSON      *)
(* value; a member of an object is a pair [k, v].  A JSON value is         *)
(* [t |-> "obj", v |-> record] or [t |-> "num"].                           *)

Absent == [kind |-> "absent"]

Text(top, items, closed) == [kind |-> "text", top |-> top, items |-> items, closed |-> closed]

\* what open(path, "w") leaves behind: an empty file
Truncated == Text("empty", <<>>, FALSE)

\* text that is no JSON at all
Garbage == Text("garbage", <<>>, FALSE)

\* a complete JSON document whose top-level value is a number
Scalar == Text("num", <<>>, TRUE)

JObj(r) == [t |-> "obj", v |-> r]

JNum == [t |-> "num"]

\* json.load(f): the parsed document, or JSONDecodeError
json_load(f) ==
  IF f.top \in {"list", "dict", "num"} /\ f.closed
    THEN [raised |-> "none", top |-> f.top, items |-> f.items]
    ELSE [raised |-> "JSONDecodeError"]

\* a dump that leaves out updated_at, the behaviour C11 excludes
model_dump_without_updated_at(e) ==
  [t |-> "obj", v |-> [g \in DOMAIN e \ {"updated_at"} |-> e[g]]]

\* MemoryEntry.model_dump() / ScheduleEntry.model_dump(): every field of the entry
model_dump(e) == JObj(e)

MemoryEntryFields == {"key", "tags", "content", "priority", "created_at", "updated_at"}

ScheduleEntryFields == {"deadline", "content", "priority", "created_at", "updated_at"}

\* MemoryEntry(**item) / ScheduleEntry(**item): every field is required
\* (Field(...)); fields the model does not declare are ignored
Validates(item, fields) == fields \subseteq DOMAIN item

Construct(item, fields) == [f \in fields |-> item[f]]

\* a default of "low" for the missing priority, the behaviour C13 excludes
DefaultPriority_low(item) ==
  IF "priority" \in DOMAIN item THEN item ELSE item @@ [priority |-> "low"]

\* `if "priority" not in item: item["priority"] = "mid"`
DefaultPriority(item) ==
  IF "priority" \in DOMAIN item THEN item ELSE item @@ [priority |-> "mid"]

----------------------------------------------------------------------------
(* Dictionaries in insertion order: sequences of [k, v] with distinct k *)

DictKeys(d) == {d[i].k : i \in 1..Len(d)}

DictIndex(d, k) == CHOOSE i \in 1..Len(d) : d[i].k = k

DictGet(d, k) == d[DictIndex(d, k)].v

\* d[k] = v
DictSet(d, k, v) ==
  IF k \in DictKeys(d)
    THEN [d EXCEPT ![DictIndex(d, k)] = [k |-> k, v |-> v]]
    ELSE Append(d, [k |-> k, v |-> v])

\* del d[k]
DictDel(d, k) ==
  LET i == DictIndex(d, k) IN
  [j \in 1..(Len(d) - 1) |-> IF j < i THEN d[j] ELSE d[j + 1]]

----------------------------------------------------------------------------
(* Load *)

RECURSIVE LoadMemoryItems(_, _)
\* the loop of _load_memories over the parsed list: an item that is no
\* object raises TypeError at `"priority" not in item` or at the item
\* assignment, outside the inner try; an object that fails validation is
\* skipped by the inner try
LoadMemoryItems(items, acc) ==
  IF items = <<>> THEN [raised |-> "none", memories |-> acc]
  ELSE LET item == Head(items) IN
       IF item.t # "obj" THEN [raised |-> "TypeError", memories |-> acc]
       ELSE LET d == DefaultPriority(item.v) IN
            IF Validates(d, MemoryEntryFields)
              THEN LoadMemoryItems(Tail(items), Append(acc, Construct(d, MemoryEntryFields)))
              ELSE LoadMemoryItems(Tail(items), acc)

\* MemoryManager._load_memories: [raised, memories]
_load_memories(f) ==
  IF f.kind = "absent" THEN [raised |-> "none", memories |-> <<>>]
  ELSE LET data == json_load(f) IN
       IF data.raised # "none" THEN [raised |-> "none", memories |-> <<>>]
       ELSE IF data.top = "num" THEN [raised |-> "TypeError", memories |-> <<>>]
       ELSE IF data.top = "dict"
              \* iterating a dict yields its keys, which are strings
              THEN IF data.items = <<>>
                     THEN [raised |-> "none", memories |-> <<>>]
                     ELSE [raised |-> "TypeError", memories |-> <<>>]
       ELSE LoadMemoryItems(data.items, <<>>)

RECURSIVE LoadScheduleItems(_, _)
\* the loop of _load_schedules over data.items()
LoadScheduleItems(items, acc) ==
  IF items = <<>> THEN [raised |-> "none", schedules |-> acc]
  ELSE LET key == Head(items).k
           item == Head(items).v IN
       IF item.t # "obj" THEN [raised |-> "TypeError", schedules |-> acc]
       ELSE LET d == DefaultPriority(item.v) IN
            IF Validates(d, ScheduleEntryFields)
              THEN LoadScheduleItems(Tail(items), DictSet(acc, key, Construct(d, ScheduleEntryFields)))
              ELSE LoadScheduleItems(Tail(items), acc)

\* ScheduleManager._load_schedules: [raised, schedules]
_load_schedules(f) ==
  IF f.kind = "absent" THEN [raised |-> "none", schedules |-> <<>>]
  ELSE LET data == json_load(f) IN
       IF data.raised # "none" THEN [raised |-> "none", schedules |-> <<>>]
       \* data.items() of a list or a number
       ELSE IF data.top # "dict" THEN [raised |-> "AttributeError", schedules |-> <<>>]
       ELSE LoadScheduleItems(data.items, <<>>)

----------------------------------------------------------------------------
(* Save: the complete text json.dump writes *)

\* json.dump([memory.model_dump() for memory in self.memories], f, ...)
DumpMemories(mems) == Text("list", [i \in 1..Len(mems) |-> model_dump(mems[i])], TRUE)

\* json.dump({key: schedule.model_dump() for key, schedule in self.schedules.items()}, f, ...)
DumpSchedules(scheds) ==
  Text("dict", [i \in 1..Len(scheds) |-> [k |-> scheds[i].k, v |-> model_dump(scheds[i].v)]], TRUE)

----------------------------------------------------------------------------
(* The managers' operations on the in-memory collection.  Each yields the  *)
(* new collection, whether the entry was found and whether the operation   *)
(* goes on to save.                                                        *)

MemoryKeys(mems) == {mems[i].key : i \in 1..Len(mems)}

\* the first entry with the key: `for memory in self.memories: if memory.key == key`
FirstWithKey(mems, key) ==
  CHOOSE i \in 1..Len(mems) : mems[i].key = key /\ \A j \in 1..(i - 1) : mems[j].key # key

Remove(seq, i) == [j \in 1..(Len(seq) - 1) |-> IF j < i THEN seq[j] ELSE seq[j + 1]]

MemoryManager_add_memory(mems, key, tags, content, priority, t) ==
  [found |-> TRUE, save |-> TRUE,
   memories |-> Append(mems, [key |-> key, tags |-> tags, content |-> content,
                              priority |-> priority, created_at |-> t, updated_at |-> t])]

\* an update that creates the entry when no entry has the key (an upsert),
\* the behaviour C1 excludes
MemoryManager_update_memory_upsert(mems, key, tags, content, priority, t) ==
  [found |-> TRUE, save |-> TRUE,
   memories |-> IF key \in MemoryKeys(mems)
                  THEN [mems EXCEPT ![FirstWithKey(mems, key)] =
                          [@ EXCEPT !.tags = tags, !.content = content, !.updated_at = t]]
                  ELSE Append(mems, [key |-> key, tags |-> tags, content |-> content,
                                     priority |-> IF priority # None THEN priority ELSE "mid",
                                     created_at |-> t, updated_at |-> t])]

\* an update that takes the entry out and appends its new version: the
\* entry changes its place in the list
MemoryManager_update_memory_moves(mems, key, tags, content, priority, t) ==
  IF key \in MemoryKeys(mems)
    THEN [found |-> TRUE, save |-> TRUE,
          memories |-> Append(Remove(mems, FirstWithKey(mems, key)),
                              [mems[FirstWithKey(mems, key)] EXCEPT
                                 !.tags = tags, !.content = content,
                                 !.priority = IF priority # None THEN priority ELSE @,
                                 !.updated_at = t])]
    ELSE [found |-> FALSE, save |-> FALSE, memories |-> mems]

MemoryManager_update_memory(mems, key, tags, content, priority, t) ==
  IF key \in MemoryKeys(mems)
    THEN [found |-> TRUE, save |-> TRUE,
          memories |-> [mems EXCEPT ![FirstWithKey(mems, key)] =
                          [@ EXCEPT !.tags = tags,
                                    !.content = content,
                                    !.priority = IF priority # None THEN priority ELSE @,
                                    !.updated_at = t]]]
    ELSE [found |-> FALSE, save |-> FALSE, memories |-> mems]

MemoryManager_delete_memory(mems, key) ==
  IF key \in MemoryKeys(mems)
    THEN [found |-> TRUE, save |-> TRUE, memories |-> Remove(mems, FirstWithKey(mems, key))]
    ELSE [found |-> FALSE, save |-> FALSE, memories |-> mems]

MemoryManager_get_memory_by_key(mems, key) ==
  IF key \in MemoryKeys(mems) THEN mems[FirstWithKey(mems, key)] ELSE None

ScheduleManager_add_schedule(scheds, schedule_id, deadline, content, priority, t) ==
  [found |-> TRUE, save |-> TRUE,
   schedules |-> DictSet(scheds, schedule_id,
                         [deadline |-> deadline, content |-> content, priority |-> priority,
                          created_at |-> t, updated_at |-> t])]

ScheduleManager_update_schedule(scheds, schedule_id, content, t) ==
  IF schedule_id \in DictKeys(scheds)
    THEN [found |-> TRUE, save |-> TRUE,
          schedules |-> [scheds EXCEPT ![DictIndex(scheds, schedule_id)].v =
                           [@ EXCEPT !.content = content, !.updated_at = t]]]
    ELSE [found |-> FALSE, save |-> FALSE, schedules |-> scheds]

ScheduleManager_delete_schedule(scheds, schedule_id) ==
  IF schedule_id \in DictKeys(scheds)
    THEN [found |-> TRUE, save |-> TRUE, schedules |-> DictDel(scheds, schedule_id)]
    ELSE [found |-> FALSE, save |-> FALSE, schedules |-> scheds]

ScheduleManager_get_schedule_by_key(scheds, schedule_id) ==
  IF schedule_id \in DictKeys(scheds) THEN DictGet(scheds, schedule_id) ELSE None

----------------------------------------------------------------------------
(* Inputs of the tool calls *)

KeyA == Rep(KeyLen, "1")
KeyB == Rep(KeyLen, "2")
KeyShort == Rep(KeyLen - 1, "1")
KeyAlpha == Rep(KeyLen - 1, "1") \o <<"x">>

MemoryArgs(key, tags, content, priority) ==
  [key |-> key, tags |-> tags, content |-> content, priority |-> priority]

AddMemoryCalls ==
  { MemoryArgs(KeyA, <<"hobby">>, "a", "high"),
    MemoryArgs(KeyA, <<"goal">>, "b", "low"),
    MemoryArgs(KeyB, <<"hobby">>, "a", "high"),
    MemoryArgs(KeyShort, <<"hobby">>, "a", "high"),
    MemoryArgs(KeyAlpha, <<"hobby">>, "a", "high"),
    MemoryArgs(KeyShort, <<"sports">>, "a", "high"),
    MemoryArgs(KeyA, <<"hobby", "sports", "music">>, "a", "high"),
    MemoryArgs(KeyA, <<"hobby">>, "a", "urgent"),
    MemoryArgs(KeyB, <<>>, "", "high") }

UpdateMemoryCalls ==
  { MemoryArgs(KeyA, <<"goal">>, "c", None),
    MemoryArgs(KeyA, <<"goal">>, "c", "low"),
    MemoryArgs(KeyB, <<"goal">>, "c", None),
    MemoryArgs(KeyB, <<"sports", "goal">>, "c", None),
    MemoryArgs(KeyA, <<"goal">>, "c", "urgent") }

LookupKeys == {KeyA, KeyB}

DeadlineA == Rep(DeadlineLen, "1")
DeadlineShort == Rep(DeadlineLen - 1, "1")
DeadlineAlpha == Rep(DeadlineLen - 1, "1") \o <<"x">>
DeadlineNewline == Rep(DeadlineLen, "1") \o <<"\n">>

ScheduleArgs(deadline, content, priority) ==
  [deadline |-> deadline, content |-> content, priority |-> priority]

AddScheduleCalls ==
  { ScheduleArgs(DeadlineA, "a", "high"),
    ScheduleArgs(DeadlineShort, "a", "high"),
    ScheduleArgs(DeadlineAlpha, "a", "high"),
    ScheduleArgs(DeadlineNewline, "a", "high"),
    ScheduleArgs(DeadlineA, "a", "urgent") }

UpdateContents == {"c"}

\* uuid.uuid4() never returns a value twice: the n-th value is n.  The entry
\* of a backing file found at the start has the id 0
Uuids == 1..MaxSched
LookupIds == Uuids \cup {0}

\* datetime.datetime.now(): later than the stamps of the entries found in
\* the backing file at the start
Times == {1}

----------------------------------------------------------------------------
(* Backing files a server can be started on *)

OldMemory == [key |-> KeyA, tags |-> <<"hobby">>, content |-> "a", priority |-> "low",
              created_at |-> 0, updated_at |-> 0]

OldSchedule == [deadline |-> DeadlineA, content |-> "a", priority |-> "low",
                created_at |-> 0, updated_at |-> 0]

\* the record r without field f
Without(r, f) == [g \in DOMAIN r \ {f} |-> r[g]]

InitMemoryFiles ==
  { Absent, Garbage, Scalar,
    Text("dict", <<>>, TRUE),
    Text("dict", <<[k |-> 0, v |-> JObj(OldSchedule)]>>, TRUE),
    Text("list", <<>>, TRUE),
    Text("list", <<JObj(OldMemory)>>, TRUE),
    Text("list", <<JObj(Without(OldMemory, "priority"))>>, TRUE),
    Text("list", <<JObj(Without(OldMemory, "content"))>>, TRUE),
    Text("list", <<JObj([OldMemory EXCEPT !.tags = <<"sports">>])>>, TRUE),
    Text("list", <<JNum>>, TRUE) }

InitScheduleFiles ==
  { Absent, Garbage, Scalar,
    Text("list", <<>>, TRUE),
    Text("dict", <<>>, TRUE),
    Text("dict", <<[k |-> 0, v |-> JObj(OldSchedule)]>>, TRUE),
    Text("dict", <<[k |-> 0, v |-> JObj(Without(OldSchedule, "priority"))]>>, TRUE),
    Text("dict", <<[k |-> 0, v |-> JObj([OldSchedule EXCEPT !.deadline = DeadlineShort])]>>, TRUE),
    Text("dict", <<[k |-> 0, v |-> JObj(Without(OldSchedule, "content"))]>>, TRUE),
    Text("dict", <<[k |-> 0, v |-> JNum]>>, TRUE) }

----------------------------------------------------------------------------
(* The record of a call *)

Ret(success, message, values) == [success |-> success, message |-> message, values |-> values]

Collection == IF server = "memory" THEN memories ELSE schedules

File == IF server = "memory" THEN memory_file ELSE schedule_file

\* a call that returned without saving
Returned(op, args, ret) ==
  [op |-> op, args |-> args, pre |-> Collection, prefile |-> File,
   saving |-> FALSE, done |-> TRUE, ret |-> ret]

\* a call that mutated the collection and entered the save
Saving(op, args) ==
  [op |-> op, args |-> args, pre |-> Collection, prefile |-> File,
   saving |-> TRUE, done |-> FALSE, ret |-> Ret(FALSE, "pending", <<>>)]

\* a construction of the manager: `pre` is the collection before the latest
\* call of the process that ran before, `at_crash` the collection that
\* process held when it stopped
Loaded(pre, at_crash, file) ==
  [op |-> "load", args |-> <<>>, pre |-> pre, at_crash |-> at_crash, prefile |-> file,
   saving |-> FALSE, done |-> TRUE, ret |-> Ret(TRUE, "loaded", <<>>)]

NoRead == [raised |-> "unread"]

----------------------------------------------------------------------------
(* The tools of the memory server *)

\* `[tag for tag in tags if tag not in valid_tags]`
InvalidTags(tags) == SelectSeq(tags, LAMBDA tag : tag \notin MemoryTag)

\* a validation of add_memory without the check of the tags, the behaviour
\* C5 excludes
add_memory_validate_no_tags(key, tags, priority) ==
  IF Len(key) # KeyLen \/ ~isdigit(key) THEN Ret(FALSE, "key_format", <<>>)
  ELSE IF priority \notin MemoryPriority THEN Ret(FALSE, "invalid_priority", <<priority>>)
  ELSE Ret(TRUE, "valid", <<>>)

\* the validation of add_memory, in the order of the code: the failure it
\* returns, or "valid" when the call goes on to the manager
add_memory_validate(key, tags, priority) ==
  IF Len(key) # KeyLen \/ ~isdigit(key) THEN Ret(FALSE, "key_format", <<>>)
  ELSE IF InvalidTags(tags) # <<>> THEN Ret(FALSE, "invalid_tags", InvalidTags(tags))
  ELSE IF priority \notin MemoryPriority THEN Ret(FALSE, "invalid_priority", <<priority>>)
  ELSE Ret(TRUE, "valid", <<>>)

\* the validation of update_memory
update_memory_validate(tags, priority) ==
  IF InvalidTags(tags) # <<>> THEN Ret(FALSE, "invalid_tags", InvalidTags(tags))
  ELSE IF priority # None /\ priority \notin MemoryPriority
         THEN Ret(FALSE, "invalid_priority", <<priority>>)
  ELSE Ret(TRUE, "valid", <<>>)

\* a tool body that gave the event loop a turn while its save is under way
\* (an awaited save): another tool of the process can start meanwhile
EventLoopFree_during_save == pc \in {"idle", "save"}

\* the event loop of the process can start a tool: the tools are coroutines
\* without an await, so each runs from its first line to its return before
\* the loop starts the next
EventLoopFree == pc = "idle"

\* a tool of the memory server: `v` is the outcome of its validation, `r`
\* what the manager's operation yields when it is called
MemoryTool(op, args, v, r) ==
  /\ server = "memory" /\ EventLoopFree
  /\ seen' = NoRead
  /\ IF ~v.success
       THEN /\ call' = Returned(op, args, v)
            /\ UNCHANGED <<pc, memories>>
       ELSE /\ memories' = r.memories
            /\ IF r.save
                 THEN pc' = "save" /\ call' = Saving(op, args)
                 ELSE pc' = "idle" /\ call' = Returned(op, args, Ret(FALSE, "not_found", <<args.key>>))
  /\ UNCHANGED <<api_vars, connector_vars, peer, server, schedules, memory_file, schedule_file, faults, uuids>>

add_memory(a, t) ==
  /\ Len(memories) < MaxMem
  /\ MemoryTool("add_memory", a, add_memory_validate(a.key, a.tags, a.priority),
                MemoryManager_add_memory(memories, a.key, a.tags, a.content, a.priority, t))

update_memory(a, t) ==
  MemoryTool("update_memory", a, update_memory_validate(a.tags, a.priority),
             MemoryManager_update_memory(memories, a.key, a.tags, a.content, a.priority, t))

delete_memory(key) ==
  MemoryTool("delete_memory", [key |-> key], Ret(TRUE, "valid", <<>>),
             MemoryManager_delete_memory(memories, key))

----------------------------------------------------------------------------
(* The tools of the schedule server *)

\* the validation of add_schedule
add_schedule_validate(deadline, priority) ==
  IF ~ReMatchDeadline(deadline) THEN Ret(FALSE, "deadline_format", <<>>)
  ELSE IF priority \notin SchedulePriority THEN Ret(FALSE, "invalid_priority", <<priority>>)
  ELSE Ret(TRUE, "valid", <<>>)

ScheduleTool(op, args, v, r) ==
  /\ server = "schedule" /\ EventLoopFree
  /\ seen' = NoRead
  /\ IF ~v.success
       THEN /\ call' = Returned(op, args, v)
            /\ UNCHANGED <<pc, schedules>>
       ELSE /\ schedules' = r.schedules
            /\ IF r.save
                 THEN pc' = "save" /\ call' = Saving(op, args)
                 ELSE pc' = "idle" /\ call' = Returned(op, args, Ret(FALSE, "not_found", <<>>))
  /\ UNCHANGED <<api_vars, connector_vars, peer, server, memories, memory_file, schedule_file, faults>>

add_schedule(a, t) ==
  /\ uuids < MaxSched
  /\ LET schedule_id == uuids + 1 IN
     ScheduleTool("add_schedule", a @@ [schedule_id |-> schedule_id],
                  add_schedule_validate(a.deadline, a.priority),
                  ScheduleManager_add_schedule(schedules, schedule_id, a.deadline, a.content,
                                               a.priority, t))
  /\ uuids' = IF add_schedule_validate(a.deadline, a.priority).success THEN uuids + 1 ELSE uuids

update_schedule(schedule_id, content, t) ==
  /\ ScheduleTool("update_schedule", [schedule_id |-> schedule_id, content |-> content],
               Ret(TRUE, "valid", <<>>),
               ScheduleManager_update_schedule(schedules, schedule_id, content, t))
  /\ UNCHANGED uuids

delete_schedule(schedule_id) ==
  /\ ScheduleTool("delete_schedule", [schedule_id |-> schedule_id], Ret(TRUE, "valid", <<>>),
               ScheduleManager_delete_schedule(schedules, schedule_id))
  /\ UNCHANGED uuids

----------------------------------------------------------------------------
(* _save_memories / _save_schedules, one file-system call at a time *)

Dump == IF server = "memory" THEN DumpMemories(memories) ELSE DumpSchedules(schedules)

SetFile(f) ==
  IF server = "memory"
    THEN memory_file' = f /\ UNCHANGED schedule_file
    ELSE schedule_file' = f /\ UNCHANGED memory_file

\* this process writes the file: the other process is not the latest writer
WriteFile(f) == SetFile(f) /\ peer' = [peer EXCEPT !.wrote_last = FALSE]

\* a file that holds `old` after `dump` has been written from its start by a
\* process that opened it before `old` was written: the file is not
\* truncated again, so what `old` has beyond the length of `dump` stays
\* behind it and the text is no JSON document (entries are taken to be of
\* one length)
Overwritten(old, dump) ==
  IF Len(old.items) > Len(dump.items) THEN Garbage ELSE dump

\* the latest call returns to its caller
Return(ret) == call' = [call EXCEPT !.done = TRUE, !.ret = ret] /\ seen' = NoRead

\* what the tool returns when the manager's operation has returned
Success ==
  CASE call.op \in {"add_memory", "add_schedule"} -> Ret(TRUE, "added", <<>>)
    [] call.op \in {"update_memory", "update_schedule"} -> Ret(TRUE, "updated", <<>>)
    [] call.op = "delete_memory" -> Ret(TRUE, "deleted", <<call.args.key>>)
    [] call.op = "delete_schedule" -> Ret(TRUE, "deleted", <<>>)

\* a save that swallows the error: the tool goes on to report success
Caught_swallowed(e) == Ret(TRUE, "saved", <<>>)

\* `except Exception as e` of the tool
Caught(e) == Ret(FALSE, "error", <<e>>)

\* open(file, "w") succeeds: the file exists and is empty
save_open ==
  /\ pc = "save"
  /\ WriteFile(Truncated)
  /\ pc' = "write"
  /\ UNCHANGED <<api_vars, connector_vars, server, memories, schedules, call, seen, faults, uuids>>

\* mkdir or open(file, "w") raises OSError: the file is untouched
save_open_raises ==
  /\ pc = "save"
  /\ faults < MaxFaults
  /\ faults' = faults + 1
  /\ Return(Caught("OSError"))
  /\ pc' = "idle"
  /\ UNCHANGED <<api_vars, connector_vars, peer, server, memories, schedules, memory_file, schedule_file, uuids>>

\* json.dump has written the first n members and the buffer is flushed
save_flush(n) ==
  /\ pc = "write"
  /\ n > Len(File.items)
  /\ WriteFile(Text(Dump.top, SubSeq(Dump.items, 1, n), FALSE))
  /\ UNCHANGED <<api_vars, connector_vars, server, pc, memories, schedules, call, seen, faults, uuids>>

\* a write raises OSError (the disk is full): the file keeps what was written
save_write_raises ==
  /\ pc = "write"
  /\ faults < MaxFaults
  /\ faults' = faults + 1
  /\ Return(Caught("OSError"))
  /\ pc' = "idle"
  /\ UNCHANGED <<api_vars, connector_vars, peer, server, memories, schedules, memory_file, schedule_file, uuids>>

\* a save that returns without writing the dump (a deferred, batched
\* write), the behaviour C7 excludes
save_close_deferred ==
  /\ pc = "write"
  /\ Return(Success)
  /\ pc' = "idle"
  /\ UNCHANGED <<api_vars, connector_vars, peer, server, memories, schedules, memory_file, schedule_file, faults, uuids>>

\* the dump is complete and the file closed; the manager and the tool return
save_close ==
  /\ pc = "write"
  /\ WriteFile(Overwritten(File, Dump))
  /\ Return(Success)
  /\ pc' = "idle"
  /\ UNCHANGED <<api_vars, connector_vars, server, memories, schedules, faults, uuids>>

----------------------------------------------------------------------------
(* The process and the other readers of the file *)

\* the server process is killed; `memories` and `schedules` keep the
\* collection it held, which no one can read any more
Crash ==
  /\ pc \in {"idle", "save", "write"}
  /\ faults < MaxFaults
  /\ faults' = faults + 1
  /\ pc' = "down"
  /\ UNCHANGED <<api_vars, connector_vars, peer, server, memories, schedules, memory_file, schedule_file, call, seen, uuids>>

\* the collection before the latest call
PreOfLatest == IF call.op = "load" THEN Collection ELSE call.pre

\* the server is started again: the module constructs its manager
Restart ==
  /\ pc = "down"
  /\ seen' = NoRead
  /\ IF server = "memory"
       THEN LET l == _load_memories(memory_file) IN
            /\ memories' = l.memories
            /\ pc' = IF l.raised = "none" THEN "idle" ELSE "load_raised"
            /\ UNCHANGED schedules
       ELSE LET l == _load_schedules(schedule_file) IN
            /\ schedules' = l.schedules
            /\ pc' = IF l.raised = "none" THEN "idle" ELSE "load_raised"
            /\ UNCHANGED memories
  /\ call' = Loaded(PreOfLatest, Collection, File)
  /\ UNCHANGED <<api_vars, connector_vars, peer, server, memory_file, schedule_file, faults, uuids>>

\* json.load of the file by whoever opens it
ReadJSON(f) == IF f.kind = "absent" THEN [raised |-> "FileNotFoundError"] ELSE json_load(f)

\* another process opens the backing file and parses it while a call is
\* saving (before_model_modifier, get_memory_stats_from_mcp)
ReaderRead ==
  /\ pc \in {"save", "write"}
  /\ seen = NoRead
  /\ seen' = ReadJSON(File)
  /\ UNCHANGED <<api_vars, connector_vars, peer, server, pc, memories, schedules, memory_file, schedule_file, call, faults, uuids>>

----------------------------------------------------------------------------

Init ==
  /\ NoApi
  /\ server \in {"memory", "schedule"}
  /\ NoConnector
  /\ peer = NoPeer
  /\ faults = 0
  /\ uuids = 0
  /\ seen = NoRead
  /\ \/ /\ server = "memory"
        /\ memory_file \in InitMemoryFiles
        /\ schedule_file = Absent
        /\ schedules = <<>>
        /\ memories = _load_memories(memory_file).memories
        /\ pc = IF _load_memories(memory_file).raised = "none" THEN "idle" ELSE "load_raised"
        /\ call = Loaded(memories, memories, memory_file)
     \/ /\ server = "schedule"
        /\ schedule_file \in InitScheduleFiles
        /\ memory_file = Absent
        /\ memories = <<>>
        /\ schedules = _load_schedules(schedule_file).schedules
        /\ pc = IF _load_schedules(schedule_file).raised = "none" THEN "idle" ELSE "load_raised"
        /\ call = Loaded(schedules, schedules, schedule_file)

Next ==
  \/ \E a \in AddMemoryCalls, t \in Times : add_memory(a, t)
  \/ \E a \in UpdateMemoryCalls, t \in Times : update_memory(a, t)
  \/ \E key \in LookupKeys : delete_memory(key)
  \/ \E a \in AddScheduleCalls, t \in Times : add_schedule(a, t)
  \/ \E schedule_id \in LookupIds, content \in UpdateContents, t \in Times :
       update_schedule(schedule_id, content, t)
  \/ \E schedule_id \in LookupIds : delete_schedule(schedule_id)
  \/ save_open
  \/ save_open_raises
  \/ \E n \in 1..Len(Dump.items) : save_flush(n)
  \/ save_write_raises
  \/ save_close
  \/ Crash
  \/ Restart
  \/ ReaderRead

Spec == Init /\ [][Next]_vars

----------------------------------------------------------------------------
(* Two server processes on one backing file: each is the same module with  *)
(* its own manager, loaded from the file when the process started.  The    *)
(* process followed is modelled as above; of the second process (`peer`)   *)
(* the model keeps the collection and where its save stands.  A dump of    *)
(* this size leaves the buffer of the file object when the file is closed, *)
(* so a save is two file-system calls: the open that truncates and the     *)
(* close that writes.                                                      *)

PeerDump ==
  IF server = "memory" THEN DumpMemories(peer.collection) ELSE DumpSchedules(peer.collection)

\* the peer's manager has mutated its collection and _save opens the file
PeerOpens(collection) ==
  /\ peer' = [peer EXCEPT !.pc = "write", !.collection = collection, !.done = FALSE]
  /\ SetFile(Truncated)
  /\ UNCHANGED <<api_vars, connector_vars, server, pc, memories, schedules, call, seen, faults, uuids>>

peer_add_memory(a, t) ==
  /\ server = "memory" /\ peer.pc = "idle"
  /\ Len(peer.collection) < MaxMem
  /\ add_memory_validate(a.key, a.tags, a.priority).success
  /\ PeerOpens(MemoryManager_add_memory(peer.collection, a.key, a.tags, a.content,
                                        a.priority, t).memories)

peer_delete_memory(key) ==
  /\ server = "memory" /\ peer.pc = "idle"
  /\ MemoryManager_delete_memory(peer.collection, key).save
  /\ PeerOpens(MemoryManager_delete_memory(peer.collection, key).memories)

peer_update_schedule(schedule_id, content, t) ==
  /\ server = "schedule" /\ peer.pc = "idle"
  /\ ScheduleManager_update_schedule(peer.collection, schedule_id, content, t).save
  /\ PeerOpens(ScheduleManager_update_schedule(peer.collection, schedule_id, content, t).schedules)

peer_delete_schedule(schedule_id) ==
  /\ server = "schedule" /\ peer.pc = "idle"
  /\ ScheduleManager_delete_schedule(peer.collection, schedule_id).save
  /\ PeerOpens(ScheduleManager_delete_schedule(peer.collection, schedule_id).schedules)

\* the peer's dump is written and its file closed; its tool returns success
peer_close ==
  /\ peer.pc = "write"
  /\ SetFile(Overwritten(File, PeerDump))
  /\ peer' = [peer EXCEPT !.pc = "idle", !.done = TRUE, !.wrote_last = TRUE]
  /\ UNCHANGED <<api_vars, connector_vars, server, pc, memories, schedules, call, seen, faults, uuids>>

\* the calls of the two processes
TwoWriterAdds == {MemoryArgs(KeyB, <<"hobby">>, "a", "high")}
PeerAdds == {MemoryArgs(KeyA, <<"goal">>, "b", "low")}

\* both processes have loaded the same backing file
TwoWriterInit ==
  /\ NoApi
  /\ server \in {"memory", "schedule"}
  /\ NoConnector
  /\ faults = 0 /\ uuids = 0 /\ seen = NoRead /\ pc = "idle"
  /\ \/ /\ server = "memory"
        /\ memory_file \in {Absent, Text("list", <<JObj(OldMemory)>>, TRUE)}
        /\ schedule_file = Absent
        /\ schedules = <<>>
        /\ memories = _load_memories(memory_file).memories
        /\ call = Loaded(memories, memories, memory_file)
        /\ peer = [NoPeer EXCEPT !.pc = "idle", !.collection = _load_memories(memory_file).memories]
     \/ /\ server = "schedule"
        /\ schedule_file \in {Absent, Text("dict", <<[k |-> 0, v |-> JObj(OldSchedule)]>>, TRUE)}
        /\ memory_file = Absent
        /\ memories = <<>>
        /\ schedules = _load_schedules(schedule_file).schedules
        /\ call = Loaded(schedules, schedules, schedule_file)
        /\ peer = [NoPeer EXCEPT !.pc = "idle", !.collection = _load_schedules(schedule_file).schedules]

TwoWriterNext ==
  \/ \E a \in TwoWriterAdds, t \in Times : add_memory(a, t)
  \/ \E key \in LookupKeys : delete_memory(key)
  \/ \E a \in AddScheduleCalls, t \in Times : add_schedule(a, t)
  \/ \E schedule_id \in LookupIds : delete_schedule(schedule_id)
  \/ save_open
  \/ save_close
  \/ \E a \in PeerAdds, t \in Times : peer_add_memory(a, t)
  \/ \E key \in LookupKeys : peer_delete_memory(key)
  \/ \E schedule_id \in LookupIds, content \in UpdateContents, t \in Times :
       peer_update_schedule(schedule_id, content, t)
  \/ \E schedule_id \in LookupIds : peer_delete_schedule(schedule_id)
  \/ peer_close

TwoWriterSpec == TwoWriterInit /\ [][TwoWriterNext]_vars

----------------------------------------------------------------------------
(* Properties *)

MemoryMutators == {"add_memory", "update_memory", "delete_memory"}
ScheduleMutators == {"add_schedule", "update_schedule", "delete_schedule"}

\* a string of exactly n decimal digits
ExactlyDigits(s, n) == Len(s) = n /\ \A i \in 1..Len(s) : s[i] \in AsciiDigits

\* the latest call has returned and left collection and file as it found them
StoreUntouched ==
  /\ call.done /\ ~call.saving
  /\ Collection = call.pre
  /\ File = call.prefile

\* C1: in both stores, update on a key that is not in the collection finds
\* nothing, creates no entry and performs no save (the manager's operation,
\* for every reachable collection), and the call returns the not-found
\* failure and leaves collection and backing file as they were before it
C1_UpdateMissLeavesStore ==
  /\ \A a \in UpdateMemoryCalls, t \in Times :
       a.key \notin MemoryKeys(memories) =>
         MemoryManager_update_memory(memories, a.key, a.tags, a.content, a.priority, t)
           = [found |-> FALSE, save |-> FALSE, memories |-> memories]
  /\ \A schedule_id \in LookupIds, content \in UpdateContents, t \in Times :
       schedule_id \notin DictKeys(schedules) =>
         ScheduleManager_update_schedule(schedules, schedule_id, content, t)
           = [found |-> FALSE, save |-> FALSE, schedules |-> schedules]
  /\ (call.op = "update_memory" /\ call.args.key \notin MemoryKeys(call.pre)
        /\ update_memory_validate(call.args.tags, call.args.priority).success) =>
       /\ StoreUntouched
       /\ call.ret = Ret(FALSE, "not_found", <<call.args.key>>)
  /\ (call.op = "update_schedule" /\ call.args.schedule_id \notin DictKeys(call.pre)) =>
       /\ StoreUntouched
       /\ call.ret = Ret(FALSE, "not_found", <<>>)

\* an update of a key that a non-empty memory store does not hold has returned
C1_Witness ==
  /\ call.op = "update_memory" /\ call.done
  /\ call.pre # <<>> /\ call.args.key \notin MemoryKeys(call.pre)
  /\ call.ret.message = "not_found"

\* C2: delete is idempotent in both stores: once delete(k) has reported
\* found, the store holds no entry with key k (so a second delete(k) reports
\* not-found)
C2_DeleteIdempotent ==
  /\ (call.op = "delete_memory" /\ call.done /\ call.ret.success) =>
       call.args.key \notin MemoryKeys(memories)
  /\ (call.op = "delete_schedule" /\ call.done /\ call.ret.success) =>
       call.args.schedule_id \notin DictKeys(schedules)

\* every entry of the memory store was added by add_memory (none comes from
\* the backing file found at the start): such a collection is reachable from
\* the empty store by the same calls
AllAddedByCalls == \A i \in 1..Len(memories) : memories[i].created_at \in Times

\* C3: in every state of the memory store reachable from the empty store by
\* add_memory, update_memory and delete_memory, no two entries have the same key
C3_UniqueKeys ==
  (server = "memory" /\ AllAddedByCalls) =>
    \A i, j \in 1..Len(memories) : memories[i].key = memories[j].key => i = j

\* C4: add_memory with a key the store already holds overwrites: afterwards
\* exactly one entry has the key, and it carries the supplied tags, content
\* and priority
C4_AddOverwrites ==
  (call.op = "add_memory" /\ call.done /\ call.ret.success
     /\ call.args.key \in MemoryKeys(call.pre)) =>
    /\ Cardinality({i \in 1..Len(memories) : memories[i].key = call.args.key}) = 1
    /\ \A i \in 1..Len(memories) :
         memories[i].key = call.args.key =>
           /\ memories[i].tags = call.args.tags
           /\ memories[i].content = call.args.content
           /\ memories[i].priority = call.args.priority

\* the tags of a list that are outside the enumeration, in order
TagsOutsideEnumeration(tags) == SelectSeq(tags, LAMBDA tag : tag \notin MemoryTag)

\* C5 as stated: add_memory with any tag outside the enumeration returns a
\* validation failure whose message names the invalid tags, and collection
\* and file are unchanged
C5_AsStated ==
  (call.op = "add_memory" /\ TagsOutsideEnumeration(call.args.tags) # <<>>) =>
    /\ StoreUntouched
    /\ call.ret = Ret(FALSE, "invalid_tags", TagsOutsideEnumeration(call.args.tags))

\* C5 amended: add_memory with a tag outside the enumeration returns a
\* failure and leaves collection and file unchanged; the failure names the
\* invalid tags when the key is 14 digits, and is the key-format failure,
\* which names no tag, when it is not
C5_InvalidTagRejected ==
  (call.op = "add_memory" /\ TagsOutsideEnumeration(call.args.tags) # <<>>) =>
    /\ StoreUntouched
    /\ call.ret = IF ExactlyDigits(call.args.key, KeyLen)
                    THEN Ret(FALSE, "invalid_tags", TagsOutsideEnumeration(call.args.tags))
                    ELSE Ret(FALSE, "key_format", <<>>)

\* add_memory has named the two invalid tags of a call whose key is well formed
C5_Witness ==
  /\ call.op = "add_memory" /\ call.done
  /\ call.ret.message = "invalid_tags" /\ Len(call.ret.values) = 2
  /\ call.pre # <<>>

\* C6: every validation failure is reported and nothing is persisted:
\* add_memory with a key that is not exactly 14 digits or a priority outside
\* {high, mid, low}, update_memory with an invalid tag or priority, and
\* add_schedule with a deadline that is not exactly 12 digits or an invalid
\* priority each return a failure and leave collection and file unchanged
C6_ValidationFailuresNotPersisted ==
  /\ (call.op = "add_memory"
        /\ (~ExactlyDigits(call.args.key, KeyLen) \/ call.args.priority \notin MemoryPriority)) =>
       StoreUntouched /\ ~call.ret.success
  /\ (call.op = "update_memory"
        /\ \/ TagsOutsideEnumeration(call.args.tags) # <<>>
           \/ call.args.priority \notin MemoryPriority \cup {None}) =>
       StoreUntouched /\ ~call.ret.success
  /\ (call.op = "add_schedule"
        /\ \/ ~ExactlyDigits(call.args.deadline, DeadlineLen)
           \/ call.args.priority \notin SchedulePriority) =>
       StoreUntouched /\ ~call.ret.success

\* C7 as stated: between operations the backing file and the in-memory
\* collection never differ
C7_AsStated == (pc = "idle" /\ call.op # "load") => File = Dump

\* C7 amended: after every add, update or delete that reports success the
\* backing file is exactly the serialization of the whole in-memory
\* collection (the two can differ after a load and after a call that
\* reported a failure, until the next successful mutation)
C7_EagerPersistence ==
  (call.op \in MemoryMutators \cup ScheduleMutators /\ call.done /\ call.ret.success) =>
    File = Dump

\* a successful update of a store of two entries has returned
C7_Witness ==
  /\ call.op \in {"update_memory", "update_schedule"} /\ call.done /\ call.ret.success
  /\ Len(Collection) = 2
  /\ pc = "idle"

\* C8: after a crash at any point of a mutating operation, the collection
\* loaded from the backing file is the collection the process held when it
\* crashed or that collection without the effect of its latest operation
C8_CrashLosesAtMostLatest ==
  (call.op = "load" /\ pc = "idle") => Collection \in {call.at_crash, call.pre}

\* C9: a reader that parses the backing file while a save is in progress
\* gets the complete collection from before the save or the complete
\* collection after it
C9_ReaderSeesComplete ==
  (pc \in {"save", "write"} /\ seen # NoRead) =>
    seen \in {ReadJSON(call.prefile), ReadJSON(Dump)}

\* C10: load never raises, whatever the backing file contains
C10_LoadNeverRaises == pc # "load_raised"

C12_TagsWithinEnumeration ==
  \A i \in 1..Len(memories) : TagsOutsideEnumeration(memories[i].tags) = <<>>

\* the entry a load builds from a raw object without priority: priority mid,
\* every other field as in the file
LoadedWithMid(raw, fields) == [f \in fields |-> IF f = "priority" THEN "mid" ELSE raw[f]]

\* a raw entry without priority that has every other field of the entry
LacksOnlyPriority(item, fields) ==
  /\ item.t = "obj"
  /\ "priority" \notin DOMAIN item.v
  /\ fields \ {"priority"} \subseteq DOMAIN item.v

\* C13: on load, in both stores, every raw entry without a priority field is
\* loaded with priority mid and its other fields unchanged
C13_MissingPriorityIsMid ==
  (call.op = "load" /\ pc = "idle" /\ call.prefile.kind = "text" /\ call.prefile.closed) =>
    /\ (server = "memory" /\ call.prefile.top = "list") =>
         \A i \in 1..Len(call.prefile.items) :
           LacksOnlyPriority(call.prefile.items[i], MemoryEntryFields) =>
             \E j \in 1..Len(memories) :
               memories[j] = LoadedWithMid(call.prefile.items[i].v, MemoryEntryFields)
    /\ (server = "schedule" /\ call.prefile.top = "dict") =>
         \A i \in 1..Len(call.prefile.items) :
           LacksOnlyPriority(call.prefile.items[i].v, ScheduleEntryFields) =>
             /\ call.prefile.items[i].k \in DictKeys(schedules)
             /\ DictGet(schedules, call.prefile.items[i].k)
                  = LoadedWithMid(call.prefile.items[i].v.v, ScheduleEntryFields)

\* a store has loaded a file whose entry has no priority and holds it with
\* priority mid
C13_Witness ==
  /\ call.op = "load" /\ pc = "idle"
  /\ call.prefile.kind = "text" /\ call.prefile.items # <<>>
  /\ \/ /\ server = "memory"
        /\ LacksOnlyPriority(call.prefile.items[1], MemoryEntryFields)
        /\ Len(memories) = 1 /\ memories[1].priority = "mid"
     \/ /\ server = "schedule"
        /\ LacksOnlyPriority(call.prefile.items[1].v, ScheduleEntryFields)
        /\ Len(schedules) = 1 /\ schedules[1].v.priority = "mid"

\* C14: after a successful add the entry is retrievable with get(key) and
\* carries the supplied fields, with created_at equal to updated_at
C14_AddThenGet ==
  /\ (call.op = "add_memory" /\ call.done /\ call.ret.success) =>
       LET m == MemoryManager_get_memory_by_key(memories, call.args.key) IN
       /\ call.args.key \in MemoryKeys(memories)
       /\ m.tags = call.args.tags
       /\ m.content = call.args.content
       /\ m.priority = call.args.priority
       /\ m.created_at = m.updated_at
  /\ (call.op = "add_schedule" /\ call.done /\ call.ret.success) =>
       LET e == ScheduleManager_get_schedule_by_key(schedules, call.args.schedule_id) IN
       /\ call.args.schedule_id \in DictKeys(schedules)
       /\ e.deadline = call.args.deadline
       /\ e.content = call.args.content
       /\ e.priority = call.args.priority
       /\ e.created_at = e.updated_at

----------------------------------------------------------------------------
(* Search.  Text that is searched is a sequence of characters. *)

MaxStore == 6    \* entries of a memory store that is searched

UpperCase == <<"A", "B", "C", "D", "E", "F", "G", "H", "I", "J", "K", "L", "M",
               "N", "O", "P", "Q", "R", "S", "T", "U", "V", "W", "X", "Y", "Z">>

LowerCase == <<"a", "b", "c", "d", "e", "f", "g", "h", "i", "j", "k", "l", "m",
               "n", "o", "p", "q", "r", "s", "t", "u", "v", "w", "x", "y", "z">>

\* str.lower()
lower(s) ==
  [i \in 1..Len(s) |->
     IF \E k \in 1..Len(UpperCase) : UpperCase[k] = s[i]
       THEN LowerCase[CHOOSE k \in 1..Len(UpperCase) : UpperCase[k] = s[i]]
       ELSE s[i]]

\* `needle in haystack` of two str: needle is a substring (the empty string
\* is one of every string)
Contains(haystack, needle) ==
  \E i \in 0..(Len(haystack) - Len(needle)) :
    SubSeq(haystack, i + 1, i + Len(needle)) = needle

\* the characters of a tag
TagChars(tag) ==
  CASE tag = "hobby" -> <<"h", "o", "b", "b", "y">>
    [] tag = "personality" -> <<"p", "e", "r", "s", "o", "n", "a", "l", "i", "t", "y">>
    [] tag = "habit" -> <<"h", "a", "b", "i", "t">>
    [] tag = "health" -> <<"h", "e", "a", "l", "t", "h">>
    [] tag = "learning" -> <<"l", "e", "a", "r", "n", "i", "n", "g">>
    [] tag = "relationship" -> <<"r", "e", "l", "a", "t", "i", "o", "n", "s", "h", "i", "p">>
    [] tag = "goal" -> <<"g", "o", "a", "l">>
    [] tag = "emotion" -> <<"e", "m", "o", "t", "i", "o", "n">>
    [] tag = "location" -> <<"l", "o", "c", "a", "t", "i", "o", "n">>
    [] tag = "time" -> <<"t", "i", "m", "e">>
    [] tag = "preference" -> <<"p", "r", "e", "f", "e", "r", "e", "n", "c", "e">>
    [] tag = "sports" -> <<"s", "p", "o", "r", "t", "s">>
    [] tag = "music" -> <<"m", "u", "s", "i", "c">>

\* the elements of a list
Elements(seq) == {seq[i] : i \in 1..Len(seq)}

\* sum(1 for x in seq if x in S)
Positions(seq, S) == Cardinality({i \in 1..Len(seq) : seq[i] \in S})

\* a score that ranks the memories of high priority first
RelevanceScore_priority(memory, query, tags) ==
  (IF tags # <<>> /\ Positions(tags, Elements(memory.tags)) > 0
     THEN Positions(tags, Elements(memory.tags)) * 5 ELSE 0)
  + (IF Contains(lower(memory.content), lower(query)) THEN 10 ELSE 0)
  + 8 * Positions(memory.tags, {tag \in Elements(memory.tags) : Contains(lower(TagChars(tag)), lower(query))})
  + (IF memory.priority = "high" THEN 3 ELSE 0)

\* the relevance_score of one memory, in tenths (0.5, 1.0 and 0.8 are 5, 10
\* and 8); `tags` is <<>> for None and for the empty list, which `if tags:`
\* treats alike
RelevanceScore(memory, query, tags) ==
  LET tag_matches == Positions(tags, Elements(memory.tags))
  IN (IF tags # <<>> /\ tag_matches > 0 THEN tag_matches * 5 ELSE 0)
     + (IF Contains(lower(memory.content), lower(query)) THEN 10 ELSE 0)
     + 8 * Positions(memory.tags, {tag \in Elements(memory.tags) : Contains(lower(TagChars(tag)), lower(query))})

MemorySearchResult(memory, relevance_score) ==
  [key |-> memory.key, tags |-> memory.tags, content |-> memory.content,
   priority |-> memory.priority, relevance_score |-> relevance_score]

RECURSIVE SortByScore(_)
\* results.sort(key=lambda x: x.relevance_score, reverse=True): descending
\* and stable
SortByScore(results) ==
  IF results = <<>> THEN <<>>
  ELSE LET rest == SortByScore(SubSeq(results, 1, Len(results) - 1))
           x == results[Len(results)]
           ahead == Positions(rest, {r \in Elements(rest) : r.relevance_score >= x.relevance_score})
       IN SubSeq(rest, 1, ahead) \o <<x>> \o SubSeq(rest, ahead + 1, Len(rest))

\* MemoryManager.search_memories
MemoryManager_search_memories(mems, query, tags) ==
  LET scored == [i \in 1..Len(mems) |->
                   MemorySearchResult(mems[i], RelevanceScore(mems[i], query, tags))]
  IN SortByScore(SelectSeq(scored, LAMBDA r : r.relevance_score > 0))

\* the search_memories tool
search_memories(query, tags) ==
  /\ server = "memory" /\ pc = "idle"
  /\ call' = Returned("search_memories", [query |-> query, tags |-> tags],
                      Ret(TRUE, "results", MemoryManager_search_memories(memories, query, tags)))
  /\ UNCHANGED <<api_vars, connector_vars, peer, server, pc, memories, schedules, memory_file, schedule_file, seen, faults, uuids>>

(* Dates.  A date is its proleptic Gregorian ordinal; strftime("%Y%m%d")   *)
(* is modelled by the zero-padded ordinal, which like YYYYMMDD has a fixed *)
(* width and the order of the dates.                                       *)

DatePrefixLen == 8
MinOrdinal == 1          \* datetime.MINYEAR-01-01
MaxOrdinal == 3652059    \* datetime.MAXYEAR-12-31
Today == 739926          \* the day the search runs

AsciiDigitSeq == <<"0", "1", "2", "3", "4", "5", "6", "7", "8", "9">>

\* n as `width` decimal digits
Digits(n, width) == [i \in 1..width |-> AsciiDigitSeq[((n \div (10 ^ (width - i))) % 10) + 1]]

strftime(date) == Digits(date, DatePrefixLen)

\* date + timedelta(days=n): OverflowError outside the dates Python has
DatePlusDays(date, n) ==
  IF date + n \in MinOrdinal..MaxOrdinal
    THEN [raised |-> "none", date |-> date + n]
    ELSE [raised |-> "OverflowError"]

\* the order of the characters that occur in deadlines
Ord(c) == CHOOSE i \in 1..Len(AsciiDigitSeq) : AsciiDigitSeq[i] = c

\* a <= b of two str: by the first character that differs, a proper prefix
\* being smaller
StrLeq(a, b) ==
  LET n == IF Len(a) < Len(b) THEN Len(a) ELSE Len(b)
      diff == {i \in 1..n : a[i] # b[i]}
  IN IF diff = {} THEN Len(a) <= Len(b)
     ELSE LET i == CHOOSE j \in diff : \A k \in diff : j <= k IN Ord(a[i]) < Ord(b[i])

\* s[:n]
Prefix(s, n) == SubSeq(s, 1, IF Len(s) < n THEN Len(s) ELSE n)

ScheduleSearchResult(key, schedule) ==
  [schedule_id |-> key, deadline |-> schedule.deadline, content |-> schedule.content,
   priority |-> schedule.priority, created_at |-> schedule.created_at,
   updated_at |-> schedule.updated_at]

\* ScheduleManager.search_schedules: [raised, results]
ScheduleManager_search_schedules(scheds, before_date, after_date, today) ==
  LET start == DatePlusDays(today, 0 - before_date)
      end == DatePlusDays(today, after_date)
  IN IF start.raised # "none" \/ end.raised # "none"
       THEN [raised |-> "OverflowError", results |-> <<>>]
       ELSE LET start_date == strftime(start.date)
                end_date == strftime(end.date)
                filtered == SelectSeq(scheds, LAMBDA e :
                              /\ StrLeq(start_date, Prefix(e.v.deadline, DatePrefixLen))
                              /\ StrLeq(Prefix(e.v.deadline, DatePrefixLen), end_date))
            IN [raised |-> "none",
                results |-> [i \in 1..Len(filtered) |->
                               ScheduleSearchResult(filtered[i].k, filtered[i].v)]]

\* the search_schedules tool: `except Exception: return []`
search_schedules(before_date, after_date, today) ==
  /\ server = "schedule" /\ pc = "idle"
  /\ call' = Returned("search_schedules",
                      [before_date |-> before_date, after_date |-> after_date, today |-> today],
                      Ret(TRUE, "results",
                          ScheduleManager_search_schedules(schedules, before_date, after_date,
                                                           today).results))
  /\ UNCHANGED <<api_vars, connector_vars, peer, server, pc, memories, schedules, memory_file, schedule_file, seen, faults, uuids>>

(* The stores that are searched and the searches *)

GuitarMemory == [key |-> KeyA, tags |-> <<"hobby">>,
                 content |-> <<"S", "t", "a", "r", "t", "e", "d", " ", "l", "e", "a", "r", "n",
                               "i", "n", "g", " ", "g", "u", "i", "t", "a", "r">>,
                 priority |-> "mid", created_at |-> 0, updated_at |-> 0]

RunMemory == [key |-> KeyA, tags |-> <<"health", "habit">>,
              content |-> <<"M", "o", "r", "n", "i", "n", "g", " ", "r", "u", "n">>,
              priority |-> "low", created_at |-> 0, updated_at |-> 0]

\* the i-th key handed out: 14 digits
SearchKey(i) == Rep(KeyLen - 1, "0") \o <<AsciiDigitSeq[i + 1]>>

\* the stores of up to MaxStore memories, each a guitar or a run memory
SearchMemoryStores ==
  UNION { { [i \in 1..n |-> [pick[i] EXCEPT !.key = SearchKey(i)]] :
              pick \in [1..n -> {GuitarMemory, RunMemory}] } : n \in 0..MaxStore }

Queries == { <<>>, <<"g", "u", "i", "t", "a", "r">>, <<"G", "u", "i", "t", "a", "r">>,
             <<"g", "i", "t", "a", "r">>, <<"h", "o", "b">> }

TagFilters == { <<>>, <<"hobby">>, <<"health", "habit">>, <<"goal">> }

\* YYYYMMDD of the date followed by HHMM
DeadlineOn(date) == strftime(date) \o <<"0", "9", "0", "0">>

\* schedules due yesterday, today, tomorrow and in ten days
DueSchedules ==
  LET due == <<Today - 1, Today, Today + 1, Today + 10>>
  IN [i \in 1..4 |-> [k |-> i, v |-> [deadline |-> DeadlineOn(due[i]), content |-> "a",
                                       priority |-> "mid", created_at |-> 0, updated_at |-> 0]]]

SearchScheduleStores ==
  { SelectSeq(DueSchedules, LAMBDA e : e.k \in ids) : ids \in SUBSET (1..4) }

\* days before and after today a search asks for
DayCounts == {-1, 0, 1, 10, 800000, 3000000}

SearchInit ==
  /\ NoApi
  /\ server \in {"memory", "schedule"}
  /\ NoConnector
  /\ peer = NoPeer
  /\ pc = "idle"
  /\ faults = 0
  /\ uuids = 0
  /\ seen = NoRead
  /\ \/ /\ server = "memory"
        /\ memories \in SearchMemoryStores
        /\ schedules = <<>>
        /\ memory_file = DumpMemories(memories)
        /\ schedule_file = Absent
        /\ call = Loaded(memories, memories, memory_file)
     \/ /\ server = "schedule"
        /\ schedules \in SearchScheduleStores
        /\ memories = <<>>
        /\ schedule_file = DumpSchedules(schedules)
        /\ memory_file = Absent
        /\ call = Loaded(schedules, schedules, schedule_file)

SearchNext ==
  \/ \E query \in Queries, tags \in TagFilters : search_memories(query, tags)
  \/ \E before_date \in DayCounts, after_date \in DayCounts : search_schedules(before_date, after_date, Today)

SearchSpec == SearchInit /\ [][SearchNext]_vars

----------------------------------------------------------------------------
(* Properties of the searches *)

MaxResults == 5      \* the most results a search may return
ScoreCutoff == 20    \* the least score of a result, on the scale 0..100

\* the results of the latest search
Results == call.ret.values

\* C15: for every store, query and tag filter, search_memories returns at
\* most 5 results and no result whose score is below the cutoff of 20
\* (relevance_score is kept in tenths)
C15_SearchCapAndCutoff ==
  call.op = "search_memories" =>
    /\ Len(Results) <= MaxResults
    /\ \A i \in 1..Len(Results) : Results[i].relevance_score >= ScoreCutoff * 10

\* C16: search is fuzzy: the misspelled query "gitar" returns, with a
\* non-zero score, every memory whose content is "Started learning guitar"
C16_FuzzyMatch ==
  (call.op = "search_memories" /\ call.args.query = <<"g", "i", "t", "a", "r">>) =>
    \A i \in 1..Len(memories) :
      memories[i].content = GuitarMemory.content =>
        \E j \in 1..Len(Results) :
          Results[j].key = memories[i].key /\ Results[j].relevance_score > 0

\* C17: with a tag filter, every memory search_memories returns has at
\* least one of the filter tags, whatever the query (the empty one included)
C17_TagFilterRestricts ==
  (call.op = "search_memories" /\ call.args.tags # <<>>) =>
    \A j \in 1..Len(Results) :
      \E a \in 1..Len(call.args.tags), b \in 1..Len(Results[j].tags) :
        call.args.tags[a] = Results[j].tags[b]

RECURSIVE ParseDigits(_)
\* the number a string of decimal digits denotes
ParseDigits(s) ==
  IF s = <<>> THEN 0
  ELSE 10 * ParseDigits(SubSeq(s, 1, Len(s) - 1)) + (Ord(s[Len(s)]) - 1)

\* the ids of the schedules whose deadline date lies in the window
DueWithin(scheds, first, last) ==
  {scheds[i].k : i \in {j \in 1..Len(scheds) :
      LET d == ParseDigits(Prefix(scheds[j].v.deadline, DatePrefixLen))
      IN first <= d /\ d <= last}}

\* C18: search_schedules(before_date, after_date) returns exactly the
\* schedules whose deadline date d satisfies
\* today - before_date <= d <= today + after_date, bounds included
C18_DateWindow ==
  call.op = "search_schedules" =>
    /\ {Results[i].schedule_id : i \in 1..Len(Results)}
         = DueWithin(schedules, call.args.today - call.args.before_date,
                     call.args.today + call.args.after_date)
    /\ \A i, j \in 1..Len(Results) : Results[i].schedule_id = Results[j].schedule_id => i = j

----------------------------------------------------------------------------
(* The connector (tools/utils/mcp_connect.py): MCPDiscovery reads the      *)
(* configuration document when the connector is constructed; a discovery   *)
(* pass (get_tools) attempts the servers of the document one after the     *)
(* other.                                                                  *)

MaxProviders == 3    \* servers in a configuration document

\* a JSON document that is an object with the given members
ConfigDoc(members) == Text("dict", members, TRUE)

\* _load_config without its isinstance check: a document that is no object
\* becomes the configuration
_load_config_unchecked(f) ==
  IF f.kind = "absent" THEN [raised |-> "FileNotFoundError"]
  ELSE IF json_load(f).raised # "none" THEN [raised |-> "RuntimeError"]
  ELSE [raised |-> "none", config |-> [t |-> "dict", items |-> <<>>]]

\* MCPDiscovery._load_config: [raised, config]
_load_config(f) ==
  IF f.kind = "absent" THEN [raised |-> "FileNotFoundError"]
  ELSE LET data == json_load(f) IN
       IF data.raised # "none" THEN [raised |-> "RuntimeError"]
       \* `raise ValueError` inside the try, wrapped by `except Exception`
       ELSE IF data.top # "dict" THEN [raised |-> "RuntimeError"]
       ELSE [raised |-> "none", config |-> [t |-> "dict", items |-> data.items]]

\* MCPDiscovery.list_servers: [raised, servers]
list_servers(cfg) ==
  IF "mcpServers" \notin DictKeys(cfg.items) THEN [raised |-> "KeyError"]
  ELSE [raised |-> "none", servers |-> DictGet(cfg.items, "mcpServers")]

\* the connection parameters _load_all_tools builds from a server
\* definition: [raised, conn]
ConnectionParams(def) ==
  IF def.t # "obj" THEN [raised |-> "AttributeError"]
  ELSE IF "command" \in DOMAIN def.v /\ def.v.command = "streamable_http"
    THEN IF "args" \notin DOMAIN def.v THEN [raised |-> "KeyError"]
         ELSE IF def.v.args = <<>> THEN [raised |-> "IndexError"]
         ELSE [raised |-> "none", conn |-> [kind |-> "http", url |-> def.v.args[1]]]
  ELSE IF {"command", "args"} \subseteq DOMAIN def.v
    THEN [raised |-> "none",
          conn |-> [kind |-> "stdio", command |-> def.v.command, args |-> def.v.args]]
    ELSE [raised |-> "KeyError"]

\* what the server does while MCPToolset(...).get_tools() is awaited: it
\* lists tools, lists none, never answers, or the await raises
Behaviours == {"tools", "no_tools", "hang", "ConnectionError", "Exception"}

\* what awaiting MCPToolset(...).get_tools() under wait_for can meet: a list
\* of tools, an empty list, or an exception
Met == {"tools", "no_tools", "TimeoutError", "ConnectionError", "Exception"}

\* the await without its timeout: a server that never answers is awaited
\* for ever
wait_for_no_timeout(behaviour) ==
  IF behaviour = "hang" THEN "pending" ELSE behaviour

\* asyncio.wait_for(..., timeout=10.0): the await of a server that never
\* answers is cancelled and raises TimeoutError
wait_for(behaviour) ==
  IF behaviour = "hang" THEN "TimeoutError" ELSE behaviour

\* the MCPToolset that is cached for a server
Handle(name, conn, toolset) == [name |-> name, connection_params |-> conn, toolset |-> toolset]

\* MCPToolset(connection_params=conn): a new object, on which no listing
\* has returned and which is not closed
MCPToolset(name) == [name |-> name, listed |-> FALSE, closed |-> FALSE]

\* get_tools() of the object created last has returned its listing
Listed(ts) == [ts EXCEPT ![Len(ts)].listed = TRUE]

\* the objects after a turn that met `outcome`: a listing with tools is
\* followed by `mcp_toolset = MCPToolset(connection_params=conn)`, a second
\* object for the same server; nothing closes an object
ToolsetsAfter(name, outcome) ==
  IF outcome = "tools" THEN Append(Listed(toolsets), MCPToolset(name))
  ELSE IF outcome = "no_tools" THEN Listed(toolsets)
  ELSE toolsets

\* the servers of the pass in progress, in the order of the document
Servers == list_servers(config).servers.items

\* the loop goes on to the next server whatever the attempt met, a variant
\* in which an exception ends the loop: the behaviour C19 excludes
NextServerAfter_abort(outcome) ==
  IF outcome \in {"tools", "no_tools"} THEN next_server + 1 ELSE Len(Servers) + 1

\* every `except` clause of the loop body falls through to the next server
NextServerAfter(outcome) == next_server + 1

\* the lines a turn of the loop prints
Printed(name, outcome) ==
  CASE outcome = "tools" -> <<[line |-> "Loaded tools from server", name |-> name]>>
    [] outcome = "no_tools" -> <<>>
    [] outcome = "TimeoutError" -> <<[line |-> "Timeout loading tools from server", name |-> name]>>
    [] outcome = "ConnectionError" ->
         <<[line |-> "Connection error loading tools from server", name |-> name]>>
    [] OTHER -> <<[line |-> "Error loading tools from server", name |-> name]>>

\* the end of a turn of the loop, whose attempt met `outcome`
EndOfTurn(name, conn, outcome) ==
  /\ toolsets' = ToolsetsAfter(name, outcome)
  /\ tools' = IF outcome = "tools"
                THEN Append(tools, Handle(name, conn, Len(ToolsetsAfter(name, outcome))))
                ELSE tools
  /\ attempts' = Append(attempts, [name |-> name, outcome |-> outcome])
  /\ stdout' = stdout \o Printed(name, outcome)
  /\ next_server' = NextServerAfter(outcome)

\* get_tools calls _load_all_tools, which asks the discovery for the servers
get_tools_start ==
  /\ server = "connector" /\ pc = "idle"
  /\ LET l == list_servers(config) IN
     IF l.raised # "none"
       THEN /\ call' = Returned("get_tools", <<>>, Ret(FALSE, "raised", <<l.raised>>))
            /\ UNCHANGED <<pc, tools, next_server, attempts, stdout, toolsets>>
     ELSE IF l.servers.t # "dict"
       \* `.items()` of a value that is no dict
       THEN /\ call' = Returned("get_tools", <<>>, Ret(FALSE, "raised", <<"AttributeError">>))
            /\ UNCHANGED <<pc, tools, next_server, attempts, stdout, toolsets>>
     ELSE /\ pc' = "loop"
          /\ tools' = <<>>
          /\ next_server' = 1
          /\ attempts' = <<>>
          /\ stdout' = <<>>
          /\ toolsets' = <<>>
          /\ call' = [Returned("get_tools", <<>>, Ret(FALSE, "pending", <<>>)) EXCEPT !.done = FALSE]
  /\ UNCHANGED <<api_vars, peer, server, memories, schedules, memory_file, schedule_file, seen, faults, uuids,
                 config_file, config, self_tools, awaited>>

\* a turn of the for loop begins: the connection parameters are built and
\* MCPToolset(...).get_tools() is awaited, unless building them raised
attempt_start(behaviour) ==
  /\ server = "connector" /\ pc = "loop"
  /\ next_server <= Len(Servers)
  /\ LET name == Servers[next_server].k
         c == ConnectionParams(Servers[next_server].v)
     IN IF c.raised # "none"
          THEN /\ EndOfTurn(name, <<>>, c.raised)
               /\ UNCHANGED <<pc, awaited>>
          ELSE /\ pc' = "await"
               /\ awaited' = behaviour
               /\ toolsets' = Append(toolsets, MCPToolset(name))
               /\ UNCHANGED <<tools, attempts, stdout, next_server>>
  /\ UNCHANGED <<api_vars, peer, server, memories, schedules, memory_file, schedule_file, call, seen, faults,
                 uuids, config_file, config, self_tools>>

\* the await returns or raises, and the turn ends
attempt_end ==
  /\ server = "connector" /\ pc = "await"
  /\ wait_for(awaited) \in Met
  /\ EndOfTurn(Servers[next_server].k, ConnectionParams(Servers[next_server].v).conn,
               wait_for(awaited))
  /\ pc' = "loop"
  /\ awaited' = "none"
  /\ UNCHANGED <<api_vars, peer, server, memories, schedules, memory_file, schedule_file, call, seen, faults,
                 uuids, config_file, config, self_tools>>

\* the loop is over: `self.tools = tools` and get_tools returns a copy
get_tools_return ==
  /\ server = "connector" /\ pc = "loop"
  /\ next_server > Len(Servers)
  /\ self_tools' = tools
  /\ call' = Returned("get_tools", <<>>, Ret(TRUE, "tools", tools))
  /\ pc' = "idle"
  /\ UNCHANGED <<api_vars, peer, server, memories, schedules, memory_file, schedule_file, seen, faults, uuids,
                 config_file, config, tools, next_server, attempts, awaited, stdout, toolsets>>

\* the methods class MCPConnector defines
MCPConnectorMethods == {"__init__", "_load_all_tools", "get_tools"}

\* SimpleAIAgent.initialize calls mcp_connector.get_stdio_tools() for the
\* names and the tools: the attribute lookup on the connector fails
get_stdio_tools ==
  /\ server = "connector" /\ pc = "idle"
  /\ "get_stdio_tools" \notin MCPConnectorMethods
  /\ call' = Returned("get_stdio_tools", <<>>, Ret(FALSE, "raised", <<"AttributeError">>))
  /\ UNCHANGED <<api_vars, peer, server, pc, memories, schedules, memory_file, schedule_file, seen, faults, uuids,
                 connector_vars>>

(* Configuration documents *)

StdioServer == JObj([command |-> "python", args |-> <<"server.py">>])
HttpServer == JObj([command |-> "streamable_http", args |-> <<"http://localhost/mcp">>])
NoCommandServer == JObj([args |-> <<"server.py">>])

ServerDefs == {StdioServer, HttpServer, NoCommandServer}

ServerNames == <<"memory", "schedule", "youtube", "weather">>

\* the documents with up to MaxProviders servers under "mcpServers"
ServerDocs ==
  UNION { { ConfigDoc(<<[k |-> "mcpServers",
                         v |-> [t |-> "dict",
                                items |-> [j \in 1..n |-> [k |-> ServerNames[j], v |-> defs[j]]]]]>>) :
              defs \in [1..n -> ServerDefs] } : n \in 0..MaxProviders }

ConfigFiles ==
  { Absent, Garbage, Text("list", <<>>, TRUE),
    ConfigDoc(<<>>),
    ConfigDoc(<<[k |-> "mcpServers", v |-> [t |-> "null"]]>>),
    ConfigDoc(<<[k |-> "mcpServers", v |-> [t |-> "list"]]>>) } \cup ServerDocs

\* MCPConnector(config_file) has been constructed, or its constructor raised
ConnectorInit ==
  /\ NoApi
  /\ server = "connector"
  /\ memories = <<>> /\ schedules = <<>>
  /\ memory_file = Absent /\ schedule_file = Absent
  /\ seen = NoRead /\ faults = 0 /\ uuids = 0
  /\ config_file \in ConfigFiles
  /\ config = IF _load_config(config_file).raised = "none"
                THEN _load_config(config_file).config ELSE [t |-> "null"]
  /\ pc = IF _load_config(config_file).raised = "none" THEN "idle" ELSE "config_raised"
  /\ tools = <<>> /\ self_tools = <<>> /\ next_server = 0 /\ attempts = <<>>
  /\ awaited = "none" /\ stdout = <<>> /\ toolsets = <<>>
  /\ peer = NoPeer
  /\ call = Returned("MCPConnector", <<>>,
                     Ret(_load_config(config_file).raised = "none", "constructed",
                         <<_load_config(config_file).raised>>))

ConnectorNext ==
  \/ get_tools_start
  \/ \E behaviour \in Behaviours : attempt_start(behaviour)
  \/ attempt_end
  \/ get_tools_return
  \/ get_stdio_tools

ConnectorSpec == ConnectorInit /\ [][ConnectorNext]_vars

\* the event loop runs the pass once get_tools has been called: a turn that
\* can begin begins, an await that can end ends, a finished loop returns
ConnectorFairness ==
  /\ WF_vars(\E behaviour \in Behaviours : attempt_start(behaviour))
  /\ WF_vars(attempt_end)
  /\ WF_vars(get_tools_return)

ConnectorLiveSpec == ConnectorSpec /\ ConnectorFairness

(* Properties of the connector *)

\* the names of the handles a pass returned
Included == {call.ret.values[j].name : j \in 1..Len(call.ret.values)}

\* C19: per-provider isolation: in a pass every server of the document is
\* attempted, once and in order, whatever the attempts for the other servers
\* met, and the result holds a handle for a server exactly when its own
\* attempt connected and listed at least one tool
C19_ProviderIsolation ==
  (call.op = "get_tools" /\ call.done /\ call.ret.success) =>
    /\ [j \in 1..Len(attempts) |-> attempts[j].name] = [j \in 1..Len(Servers) |-> Servers[j].k]
    /\ \A j \in 1..Len(attempts) :
         attempts[j].name \in Included <=> attempts[j].outcome = "tools"

\* a pass over three servers has returned the handles of two of them while
\* the attempt for the first timed out
C19_Witness ==
  /\ call.op = "get_tools" /\ call.done /\ call.ret.success
  /\ Len(attempts) = 3
  /\ attempts[1].outcome = "TimeoutError"
  /\ Included = {attempts[2].name, attempts[3].name}

\* C20: a discovery pass never raises to its caller, whatever the servers do
\* and whatever the document holds
C20_PassNeverRaises ==
  (call.op = "get_tools" /\ call.done) => call.ret.success

\* a pass is in progress
PassInProgress == pc \in {"loop", "await"}

\* a pass has returned to its caller
PassReturned == call.op = "get_tools" /\ call.done /\ call.ret.success

\* C21: the attempts run concurrently, one task per server: while the
\* attempt for one server is awaited, the attempt for every other server of
\* the document has started as well, none waits for the one awaited
C21_AttemptsConcurrent ==
  pc = "await" => \A j \in 1..Len(Servers) : j <= next_server

\* C22: a pass over a finite list of servers terminates even when a server
\* never answers: the pass returns, the attempts that hung are recorded as
\* timeouts and the handles of the servers that listed tools are returned
C22_PassTerminates ==
  PassInProgress ~>
    (/\ pc = "idle" /\ PassReturned
     /\ Len(attempts) = Len(Servers)
     /\ \A j \in 1..Len(attempts) : attempts[j].outcome = "tools" => attempts[j].name \in Included)

\* a pass over three servers has returned the handles of the first and the
\* third after the attempt for the second timed out
C22_Witness ==
  /\ PassReturned
  /\ Len(attempts) = 3
  /\ attempts[2].outcome = "TimeoutError"
  /\ Included = {attempts[1].name, attempts[3].name}
  /\ Len(call.ret.values) = 2

\* the failure lines printed for a server
FailureLines(name) ==
  {i \in 1..Len(stdout) : stdout[i].name = name /\ stdout[i].line # "Loaded tools from server"}

\* the terminal state of an attempt
AttemptState(outcome) ==
  CASE outcome \in {"tools", "no_tools"} -> "Connected"
    [] outcome = "TimeoutError" -> "TimedOut"
    [] outcome = "ConnectionError" -> "ConnectionRefused"
    [] OTHER -> "OtherError"

\* C23: every attempt ends as connected, timed out, connection refused or
\* other error, and every server absent from the result of a pass has
\* exactly one failure line printed for it, a server that connected and
\* listed no tools included
C23_OneFailureLinePerAbsent ==
  PassReturned =>
    \A j \in 1..Len(attempts) :
      /\ AttemptState(attempts[j].outcome) \in
           {"Connected", "TimedOut", "ConnectionRefused", "OtherError"}
      /\ attempts[j].name \notin Included => Cardinality(FailureLines(attempts[j].name)) = 1

\* C24: a pass returns a list of names and a list of handles of equal
\* length, the i-th name that of the server of the i-th handle, in the order
\* of the document
C24_ParallelLists ==
  /\ (call.op = "get_stdio_tools" /\ call.done) => call.ret.success
  /\ (call.op \in {"get_tools", "get_stdio_tools"} /\ call.done /\ call.ret.success) =>
       /\ call.ret.message = "names_and_tools"
       /\ Len(call.ret.values) = 2
       /\ Len(call.ret.values[1]) = Len(call.ret.values[2])
       /\ \A j \in 1..Len(call.ret.values[1]) : call.ret.values[2][j].name = call.ret.values[1][j]

\* the configuration file is an object
IsObject(f) == f.kind # "absent" /\ json_load(f).raised = "none" /\ json_load(f).top = "dict"

\* C25: discovery raises and yields no mapping when the document is
\* missing, is no JSON, is no object or has no "mcpServers" member;
\* otherwise list_servers returns the value stored under "mcpServers"
C25_DiscoveryFailsFast ==
  /\ ~IsObject(config_file) =>
       /\ pc = "config_raised"
       /\ call.op = "MCPConnector" /\ ~call.ret.success
       /\ call.ret.values = <<IF config_file.kind = "absent" THEN "FileNotFoundError" ELSE "RuntimeError">>
  /\ IsObject(config_file) =>
       /\ pc # "config_raised"
       /\ IF "mcpServers" \in DictKeys(config_file.items)
            THEN list_servers(config) =
                   [raised |-> "none", servers |-> DictGet(config_file.items, "mcpServers")]
            ELSE /\ list_servers(config).raised = "KeyError"
                 /\ ~PassInProgress
                 /\ (call.op = "get_tools" /\ call.done) =>
                      ~call.ret.success /\ call.ret.values = <<"KeyError">>

\* discovery raised for a document without "mcpServers" when the servers
\* were asked for
C25_Witness ==
  /\ IsObject(config_file)
  /\ "mcpServers" \notin DictKeys(config_file.items)
  /\ call.op = "get_tools" /\ call.done /\ call.ret.values = <<"KeyError">>

----------------------------------------------------------------------------
(* Further properties of the stores *)

\* C26: when writing the backing file fails during add, update or delete,
\* the failure reaches the caller: a call that entered the save and left the
\* file different from the collection returned the error, not a success
C26_SaveFailureReported ==
  (call.op \in MemoryMutators \cup ScheduleMutators /\ call.done /\ call.saving /\ File # Dump) =>
    ~call.ret.success /\ call.ret.values = <<"OSError">>

\* an add whose save raised after truncating the file has returned the error
C26_Witness ==
  /\ call.op \in {"add_memory", "add_schedule"} /\ call.done /\ call.saving
  /\ File = Truncated /\ File # Dump
  /\ ~call.ret.success

\* C28: in every reachable state of the memory store every entry has at
\* least one tag
C28_TagsNonEmpty ==
  server = "memory" => \A i \in 1..Len(memories) : memories[i].tags # <<>>

\* C29: in every reachable state of the memory store every entry has
\* non-empty content
C29_ContentNonEmpty ==
  server = "memory" => \A i \in 1..Len(memories) : memories[i].content # ""

\* C30: in every reachable state of the schedule store, the state right
\* after load included, every entry's deadline is a string of exactly twelve
\* decimal digits
C30_DeadlineTwelveDigits ==
  server = "schedule" =>
    \A i \in 1..Len(schedules) : ExactlyDigits(schedules[i].v.deadline, DeadlineLen)

\* C27: last full rewrite wins: when two processes on one backing file have
\* each completed a mutating operation, the file equals the whole
\* collection of the process that saved last (so the mutation of the other
\* can be absent from the file)
C27_LastRewriteWins ==
  (/\ call.op \in MemoryMutators \cup ScheduleMutators /\ call.done /\ call.ret.success
   /\ peer.pc = "idle" /\ peer.done) =>
    File = IF peer.wrote_last THEN PeerDump ELSE Dump

\* C33: a successful update changes only the supplied fields and
\* updated_at: update_memory replaces tags and content and changes priority
\* only when one is given, update_schedule changes only content; key,
\* created_at (and a schedule's deadline and priority), the place of the
\* entry in the collection and every other entry are as before the call
C33_UpdateFrame ==
  /\ (call.op = "update_memory" /\ call.done /\ call.ret.success) =>
       LET i == FirstWithKey(call.pre, call.args.key) IN
       /\ Len(memories) = Len(call.pre)
       /\ \A j \in 1..Len(call.pre) : j # i => memories[j] = call.pre[j]
       /\ memories[i].key = call.pre[i].key
       /\ memories[i].created_at = call.pre[i].created_at
       /\ memories[i].tags = call.args.tags
       /\ memories[i].content = call.args.content
       /\ memories[i].priority =
            IF call.args.priority = None THEN call.pre[i].priority ELSE call.args.priority
  /\ (call.op = "update_schedule" /\ call.done /\ call.ret.success) =>
       LET i == DictIndex(call.pre, call.args.schedule_id) IN
       /\ Len(schedules) = Len(call.pre)
       /\ \A j \in 1..Len(call.pre) : j # i => schedules[j] = call.pre[j]
       /\ schedules[i].k = call.pre[i].k
       /\ schedules[i].v.content = call.args.content
       /\ schedules[i].v.deadline = call.pre[i].v.deadline
       /\ schedules[i].v.priority = call.pre[i].v.priority
       /\ schedules[i].v.created_at = call.pre[i].v.created_at

\* update_memory without a priority has updated the first of two entries
C33_Witness ==
  /\ call.op = "update_memory" /\ call.done /\ call.ret.success
  /\ Len(call.pre) = 2
  /\ call.pre[1].key = call.args.key
  /\ call.args.priority = None
  /\ memories[1].content = call.args.content /\ memories[1].content # call.pre[1].content

\* C34: within one server process the tools run one at a time: between the
\* in-memory mutation of an operation and the completion of its save no
\* other operation of the process runs (the call in progress stays the same
\* call and nothing else changes the collection)
C34_OneAtATime ==
  [][(pc = "save" \/ pc = "write") =>
       (memories' = memories /\ schedules' = schedules /\ call'.op = call.op
          /\ call'.args = call.args /\ call'.pre = call.pre)]_vars

\* a call has mutated the collection and its save has not completed
C34_Witness ==
  /\ pc = "write"
  /\ call.op \in MemoryMutators \cup ScheduleMutators /\ ~call.done
  /\ Collection # call.pre

\* C37: whenever add, update or delete reports a failure, whatever the
\* reason, the in-memory collection is as it was before the call
C37_FailureLeavesCollection ==
  (call.op \in MemoryMutators \cup ScheduleMutators /\ call.done /\ ~call.ret.success) =>
    Collection = call.pre

\* a search result without the priority it carries along
Ranked(results) ==
  [j \in 1..Len(results) |->
     [key |-> results[j].key, tags |-> results[j].tags, content |-> results[j].content,
      relevance_score |-> results[j].relevance_score]]

\* the store with the priority p in place of the priority of every entry
WithPriority(mems, p) == [j \in 1..Len(mems) |-> [mems[j] EXCEPT !.priority = p]]

----------------------------------------------------------------------------
(* Statistics: the get_memory_stats tool of the memory server, which reads *)
(* the manager's collection, and get_memory_stats_from_mcp of the API      *)
(* process, which reads the backing file                                   *)

TopTags == 5    \* the tags most_used_tags may hold

RECURSIVE CountTags(_, _)

\* `for tag in tags: tag_counts[tag] = tag_counts.get(tag, 0) + 1`
CountTags(tags, tag_counts) ==
  IF tags = <<>> THEN tag_counts
  ELSE LET tag == Head(tags)
           n == IF tag \in DictKeys(tag_counts) THEN DictGet(tag_counts, tag) ELSE 0
       IN CountTags(Tail(tags), DictSet(tag_counts, tag, n + 1))

RECURSIVE TagCounts(_, _)

\* `for memory in memories: for tag in memory.tags: ...` over the lists of
\* tags of the memories in store order
TagCounts(tag_lists, tag_counts) ==
  IF tag_lists = <<>> THEN tag_counts
  ELSE TagCounts(Tail(tag_lists), CountTags(Head(tag_lists), tag_counts))

RECURSIVE SortByCount_ties_reversed(_)

\* a sort by count that puts a tag before the tags of the same count seen
\* earlier
SortByCount_ties_reversed(items) ==
  IF items = <<>> THEN <<>>
  ELSE LET rest == SortByCount_ties_reversed(SubSeq(items, 1, Len(items) - 1))
           x == items[Len(items)]
           ahead == Positions(rest, {r \in Elements(rest) : r.v > x.v})
       IN SubSeq(rest, 1, ahead) \o <<x>> \o SubSeq(rest, ahead + 1, Len(rest))

RECURSIVE SortByCount(_)

\* sorted(tag_counts.items(), key=lambda x: x[1], reverse=True): the sort is
\* stable, so items of one count keep the order of the dict
SortByCount(items) ==
  IF items = <<>> THEN <<>>
  ELSE LET rest == SortByCount(SubSeq(items, 1, Len(items) - 1))
           x == items[Len(items)]
           ahead == Positions(rest, {r \in Elements(rest) : r.v >= x.v})
       IN SubSeq(rest, 1, ahead) \o <<x>> \o SubSeq(rest, ahead + 1, Len(rest))

\* sorted(...)[:5]
MostUsedTags(tag_counts) == Prefix(SortByCount(tag_counts), TopTags)

\* keys.sort(); keys[0]
Earliest(keys) == CHOOSE k \in Elements(keys) : \A other \in Elements(keys) : StrLeq(k, other)

\* keys.sort(); keys[-1]
Latest(keys) == CHOOSE k \in Elements(keys) : \A other \in Elements(keys) : StrLeq(other, k)

\* {"earliest": keys[0] if keys else None, "latest": keys[-1] if keys else
\* None}: an optional key is <<>> for None and <<key>> for a key
KeyRange(keys) ==
  IF keys = <<>> THEN [earliest |-> <<>>, latest |-> <<>>]
  ELSE [earliest |-> <<Earliest(keys)>>, latest |-> <<Latest(keys)>>]

Stats(total_memories, key_range, tag_counts, most_used_tags) ==
  [total_memories |-> total_memories, key_range |-> key_range, tag_counts |-> tag_counts,
   most_used_tags |-> most_used_tags]

\* the statistics the get_memory_stats tool computes: the range is over all
\* the keys of the collection
MemoryStats(mems) ==
  LET tag_counts == TagCounts([i \in 1..Len(mems) |-> mems[i].tags], <<>>)
      keys == [i \in 1..Len(mems) |-> mems[i].key]
  IN Stats(Len(mems), KeyRange(keys), tag_counts, MostUsedTags(tag_counts))

\* the get_memory_stats tool
get_memory_stats ==
  /\ server = "memory" /\ EventLoopFree
  /\ call' = Returned("get_memory_stats", <<>>, Ret(TRUE, "stats", <<MemoryStats(memories)>>))
  /\ UNCHANGED <<api_vars, connector_vars, peer, server, pc, memories, schedules, memory_file, schedule_file, seen, faults, uuids>>

\* memory.get(name, default) of a parsed member
JsonGet(item, name, default) == IF name \in DOMAIN item.v THEN item.v[name] ELSE default

\* `[k for k in keys if k and len(k) == 14 and k.isdigit()]`
ValidKeys(keys) == SelectSeq(keys, LAMBDA k : k # <<>> /\ Len(k) = KeyLen /\ isdigit(k))

\* get_memory_stats_from_mcp: [returned, stats]; it returns None when the
\* file is missing, is no JSON document, or holds something whose members
\* have no `get` (`except Exception`)
get_memory_stats_from_mcp_value(f) ==
  IF f.kind = "absent" THEN [returned |-> "None"]
  ELSE LET data == json_load(f) IN
       IF data.raised # "none" THEN [returned |-> "None"]
       ELSE IF data.top = "num" THEN [returned |-> "None"]
       ELSE IF data.items = <<>>
              THEN [returned |-> "stats", stats |-> Stats(0, KeyRange(<<>>), <<>>, <<>>)]
       ELSE IF data.top = "dict" \/ \E i \in 1..Len(data.items) : data.items[i].t # "obj"
              THEN [returned |-> "None"]
       ELSE LET tag_counts == TagCounts([i \in 1..Len(data.items) |->
                                           JsonGet(data.items[i], "tags", <<>>)], <<>>)
                keys == [i \in 1..Len(data.items) |-> JsonGet(data.items[i], "key", <<>>)]
            IN [returned |-> "stats",
                stats |-> Stats(Len(data.items), KeyRange(ValidKeys(keys)), tag_counts,
                                MostUsedTags(tag_counts))]

\* the API process calls get_memory_stats_from_mcp; `seen` keeps the file it
\* read and what the function returned
get_memory_stats_from_mcp ==
  /\ server = "memory"
  /\ seen' = [raised |-> "none", read |-> memory_file,
              result |-> get_memory_stats_from_mcp_value(memory_file)]
  /\ UNCHANGED <<api_vars, connector_vars, peer, server, pc, memories, schedules, memory_file, schedule_file, call, faults, uuids>>

(* The stores whose statistics are taken *)

StatsAdds ==
  { MemoryArgs(KeyA, <<"hobby", "goal", "habit">>, "a", "high"),
    MemoryArgs(KeyB, <<"time", "goal", "health", "learning", "emotion">>, "b", "low"),
    MemoryArgs(KeyB, <<"habit", "habit">>, "a", "mid") }

StatsUpdates == { MemoryArgs(KeyA, <<"health", "goal">>, "c", None) }

\* no file, and a file that holds a memory whose key has thirteen digits
StatsInitFiles ==
  { Absent, Text("list", <<JObj([OldMemory EXCEPT !.key = KeyShort])>>, TRUE) }

StatsInit ==
  /\ NoApi
  /\ server = "memory"
  /\ NoConnector
  /\ peer = NoPeer
  /\ pc = "idle"
  /\ faults = 0
  /\ uuids = 0
  /\ seen = NoRead
  /\ memory_file \in StatsInitFiles
  /\ schedule_file = Absent
  /\ schedules = <<>>
  /\ memories = _load_memories(memory_file).memories
  /\ call = Loaded(memories, memories, memory_file)

StatsNext ==
  \/ \E a \in StatsAdds, t \in Times : add_memory(a, t)
  \/ \E a \in StatsUpdates, t \in Times : update_memory(a, t)
  \/ \E key \in LookupKeys : delete_memory(key)
  \/ save_open
  \/ save_close
  \/ get_memory_stats
  \/ get_memory_stats_from_mcp

StatsSpec == StatsInit /\ [][StatsNext]_vars

----------------------------------------------------------------------------
(* Properties of the statistics *)

\* the get_memory_stats tool has returned statistics
ToolStats == call.op = "get_memory_stats" /\ call.done

\* get_memory_stats_from_mcp has returned statistics of the file it read
EndpointStats == "result" \in DOMAIN seen /\ seen.result.returned = "stats"

\* the range over the keys of `keys` that are 14 digits
RangeOverValid(keys, key_range) ==
  LET valid == {k \in Elements(keys) : ExactlyDigits(k, KeyLen)}
  IN IF valid = {} THEN key_range.earliest = <<>> /\ key_range.latest = <<>>
     ELSE /\ Len(key_range.earliest) = 1 /\ Len(key_range.latest) = 1
          /\ key_range.earliest[1] \in valid /\ key_range.latest[1] \in valid
          /\ \A k \in valid : StrLeq(key_range.earliest[1], k) /\ StrLeq(k, key_range.latest[1])

\* C31: the statistics report the number of all entries as the total, and
\* as earliest and latest the least and the greatest of the keys that are
\* exactly 14 digits, in the tool and in the endpoint alike
C31_RangeOverValidKeys ==
  /\ ToolStats =>
       /\ call.ret.values[1].total_memories = Len(memories)
       /\ RangeOverValid([i \in 1..Len(memories) |-> memories[i].key],
                         call.ret.values[1].key_range)
  /\ EndpointStats =>
       /\ seen.result.stats.total_memories = Len(seen.read.items)
       /\ RangeOverValid([i \in 1..Len(seen.read.items) |-> seen.read.items[i].v.key],
                         seen.result.stats.key_range)

RECURSIVE Flatten(_)

\* the tags of the memories one after the other, in store order
Flatten(tag_lists) ==
  IF tag_lists = <<>> THEN <<>> ELSE Head(tag_lists) \o Flatten(Tail(tag_lists))

\* the place where a tag is seen first
FirstSeen(flat, tag) == CHOOSE i \in 1..Len(flat) : flat[i] = tag /\ \A j \in 1..(i - 1) : flat[j] # tag

\* most_used_tags of `stats` is the top of tag_counts: at most TopTags
\* pairs of tag_counts, counts descending, tags of one count in the order
\* in which they were first seen in `flat`, and no tag left out that has a
\* higher count than a tag let in
TopByCount(stats, flat) ==
  LET top == stats.most_used_tags
      counts == stats.tag_counts
  IN /\ Len(top) <= TopTags
     /\ \A j \in 1..Len(top) : top[j] \in Elements(counts)
     /\ \A j, k \in 1..Len(top) :
          j < k => \/ top[j].v > top[k].v
                   \/ top[j].v = top[k].v /\ FirstSeen(flat, top[j].k) < FirstSeen(flat, top[k].k)
     /\ \A c \in Elements(counts) \ Elements(top) :
          Len(top) = TopTags /\ \A j \in 1..Len(top) : top[j].v >= c.v

\* C32: most_used_tags holds at most 5 (tag, count) pairs, the tags of the
\* highest counts in descending order of count, tags of one count in the
\* order in which they are first seen when the memories are scanned in
\* store order
C32_TopFiveStable ==
  /\ ToolStats =>
       TopByCount(call.ret.values[1], Flatten([i \in 1..Len(memories) |-> memories[i].tags]))
  /\ EndpointStats =>
       TopByCount(seen.result.stats,
                  Flatten([i \in 1..Len(seen.read.items) |-> seen.read.items[i].v.tags]))

\* the tool has returned statistics of a store with more than five tags,
\* where the most used tag was not the first seen and two of the top five
\* have one count
C32_Witness ==
  /\ ToolStats
  /\ LET top == call.ret.values[1].most_used_tags
         counts == call.ret.values[1].tag_counts
     IN /\ Len(counts) > TopTags
        /\ top[1] # counts[1]
        /\ top[1].v > top[2].v
        /\ \E j, k \in 1..Len(top) : j # k /\ top[j].v = top[k].v

\* C36: the count the statistics report for a tag is the number of memories
\* that have the tag
C36_CountIsMemoriesWithTag ==
  ToolStats =>
    \A j \in 1..Len(call.ret.values[1].tag_counts) :
      call.ret.values[1].tag_counts[j].v
        = Cardinality({i \in 1..Len(memories) :
                         call.ret.values[1].tag_counts[j].k \in Elements(memories[i].tags)})

----------------------------------------------------------------------------
(* Properties of the connection objects of a pass *)

\* C38: when a pass has returned, every handle it returned is the object on
\* which the server's tool listing returned, and every object the pass
\* created is among the handles returned or is closed
C38_HandlesVerifiedNoneAbandoned ==
  PassReturned =>
    /\ \A j \in 1..Len(call.ret.values) : toolsets[call.ret.values[j].toolset].listed
    /\ \A i \in 1..Len(toolsets) :
         \/ toolsets[i].closed
         \/ \E j \in 1..Len(call.ret.values) : call.ret.values[j].toolset = i

----------------------------------------------------------------------------
(* The API process: the registry of agents, the chat requests, the         *)
(* deletion and the listing of sessions.  The handlers are coroutines on   *)
(* one event loop: a handler runs from one await that suspends it to the   *)
(* next without another handler in between.  User and session ids are      *)
(* sequences of characters.                                                *)

MaxRequests == 2    \* chat requests in one behaviour

DEFAULT_USER_ID == <<"d", "e", "f", "a", "u", "l", "t", "_", "u", "s", "e", "r">>

\* str(uuid.uuid4()) of the r-th request: a string of its own, without "_"
Uuid4Str(r) == <<"u">> \o Digits(r, 1)

\* f"{user_id}_{session_id}"
AgentKey(user_id, session_id) == user_id \o <<"_">> \o session_id

RECURSIVE Split(_)

\* key.split("_")
Split(s) ==
  IF "_" \notin Elements(s) THEN <<s>>
  ELSE LET i == CHOOSE j \in 1..Len(s) : s[j] = "_" /\ \A k \in 1..(j - 1) : s[k] # "_"
       IN <<SubSeq(s, 1, i - 1)>> \o Split(SubSeq(s, i + 1, Len(s)))

\* what self.mcp_connector.get_stdio_tools() does when initialize calls it.
\* The class MCPConnector has no such method and the call raises
\* AttributeError (get_stdio_tools above); with the connector that
\* initialize is written for, it returns the names and the tools
NamesAndTools == {"AttributeError", "returned"}

\* a request that has not arrived
NoRequest == [pc |-> "none", user_id |-> <<>>, session_id |-> <<>>, agent |-> 0]

\* SimpleAIAgent() followed by the first lines of initialize, which keep the
\* ids; the agent has no runner yet
SimpleAIAgent(session_id, user_id) ==
  [session_id |-> session_id, user_id |-> user_id, initialized |-> FALSE]

\* POST /api/chat arrives and the handler runs to its first suspension.  An
\* omitted id is <<>>.  With no agent under the key, an agent is constructed
\* and initialize is awaited: it raises at get_stdio_tools and the handler
\* answers 500, or it goes on to `await create_session`, where it is
\* suspended.  With an agent under the key, agent.chat is awaited
chat_arrives(r, request_user_id, request_session_id, names_and_tools) ==
  /\ server = "api"
  /\ requests[r].pc = "none"
  /\ \A q \in 1..(r - 1) : requests[q].pc # "none"
  /\ LET session_id == IF request_session_id # <<>> THEN request_session_id ELSE Uuid4Str(r)
         user_id == IF request_user_id # <<>> THEN request_user_id ELSE DEFAULT_USER_ID
         agent_key == AgentKey(user_id, session_id)
         request == [NoRequest EXCEPT !.user_id = user_id, !.session_id = session_id]
     IN IF agent_key \notin DictKeys(agents)
          THEN /\ instances' = Append(instances, SimpleAIAgent(session_id, user_id))
               /\ requests' = [requests EXCEPT ![r] =
                    [request EXCEPT !.agent = Len(instances) + 1,
                                    !.pc = IF names_and_tools = "returned"
                                             THEN "initialize" ELSE "failed"]]
          ELSE /\ requests' = [requests EXCEPT ![r] =
                    [request EXCEPT !.agent = DictGet(agents, agent_key), !.pc = "chat"]]
               /\ UNCHANGED instances
  /\ UNCHANGED <<agents, connector_vars, peer, server, pc, memories, schedules, memory_file,
                 schedule_file, call, seen, faults, uuids>>

\* create_session returns, initialize builds the agent and the runner and
\* returns, `agents[agent_key] = agent`, and agent.chat is awaited
chat_initialized(r) ==
  /\ server = "api"
  /\ requests[r].pc = "initialize"
  /\ instances' = [instances EXCEPT ![requests[r].agent].initialized = TRUE]
  /\ agents' = DictSet(agents, AgentKey(requests[r].user_id, requests[r].session_id),
                       requests[r].agent)
  /\ requests' = [requests EXCEPT ![r].pc = "chat"]
  /\ UNCHANGED <<connector_vars, peer, server, pc, memories, schedules, memory_file,
                 schedule_file, call, seen, faults, uuids>>

\* agent.chat returns and the handler answers with the response
chat_responds(r) ==
  /\ server = "api"
  /\ requests[r].pc = "chat"
  /\ requests' = [requests EXCEPT ![r].pc = "done"]
  /\ UNCHANGED <<agents, instances, connector_vars, peer, server, pc, memories, schedules,
                 memory_file, schedule_file, call, seen, faults, uuids>>

\* DELETE /api/session/{session_id}: user_id is DEFAULT_USER_ID when omitted
delete_session(session_id, request_user_id) ==
  /\ server = "api"
  /\ LET user_id == IF request_user_id # <<>> THEN request_user_id ELSE DEFAULT_USER_ID
         agent_key == AgentKey(user_id, session_id)
     IN IF agent_key \in DictKeys(agents)
          THEN /\ agents' = DictDel(agents, agent_key)
               /\ call' = Returned("delete_session", [key |-> agent_key], Ret(TRUE, "deleted", <<>>))
          ELSE /\ UNCHANGED agents
               /\ call' = Returned("delete_session", [key |-> agent_key], Ret(TRUE, "not_found", <<>>))
  /\ UNCHANGED <<requests, instances, connector_vars, peer, server, pc, memories, schedules,
                 memory_file, schedule_file, seen, faults, uuids>>

\* the entry list_sessions makes of a key
ActiveSession(key) ==
  [agent_key |-> key, user_id |-> Split(key)[1], session_id |-> Split(key)[2]]

\* GET /api/sessions
list_sessions ==
  /\ server = "api"
  /\ call' = Returned("list_sessions", <<>>,
                      Ret(TRUE, "sessions", [i \in 1..Len(agents) |-> ActiveSession(agents[i].k)]))
  /\ UNCHANGED <<api_vars, connector_vars, peer, server, pc, memories, schedules, memory_file,
                 schedule_file, seen, faults, uuids>>

(* The requests *)

\* the user ids of the requests: omitted, without and with "_"
UserIds == { <<>>, <<"a">>, <<"a", "_", "b">> }

\* the session ids of the requests: omitted, without and with "_"
SessionIds == { <<>>, <<"c">>, <<"b", "_", "c">> }

ApiInit ==
  /\ server = "api"
  /\ NoConnector
  /\ peer = NoPeer
  /\ pc = "idle"
  /\ memories = <<>> /\ schedules = <<>>
  /\ memory_file = Absent /\ schedule_file = Absent
  /\ seen = NoRead /\ faults = 0 /\ uuids = 0
  /\ agents = <<>>
  /\ instances = <<>>
  /\ requests = [r \in 1..MaxRequests |-> NoRequest]
  /\ call = Returned("app", <<>>, Ret(TRUE, "started", <<>>))

ApiNext ==
  \/ \E r \in 1..MaxRequests, user_id \in UserIds, session_id \in SessionIds,
        names_and_tools \in NamesAndTools :
       chat_arrives(r, user_id, session_id, names_and_tools)
  \/ \E r \in 1..MaxRequests : chat_initialized(r)
  \/ \E r \in 1..MaxRequests : chat_responds(r)
  \/ \E session_id \in SessionIds \ {<<>>}, user_id \in UserIds : delete_session(session_id, user_id)
  \/ list_sessions

ApiSpec == ApiInit /\ [][ApiNext]_vars

----------------------------------------------------------------------------
(* Properties of the session registry *)

\* the (user_id, session_id) of a request
Pair(request) == <<request.user_id, request.session_id>>

====
